---- MODULE Spec2Model ----
(***************************************************************************)
(* Model of the ai-chatbox voice pipeline: the fetch loop (the detection   *)
(* state machine and the recording segmenter), the transcription worker,   *)
(* the LLM conversation history and the TTS text chunker.                  *)
(*                                                                         *)
(* The repository holds two builds of the fetch loop:                      *)
(*   "main" : src/src/main.rs, three states, one-shot recording;           *)
(*   "ap"   : src/src/audio_processing.rs with src/src/transcription.rs,   *)
(*            two states, continuous conversation with exit phrase.        *)
(* `variant` says which build is running; it never changes.                *)
(***************************************************************************)
EXTENDS Integers, Sequences, FiniteSets, TLC

VARIABLES
    variant,          \* which build of the pipeline runs ("main" or "ap")
    state,            \* State enum of inner_fetch_proc
    file_idx,         \* next recording file index
    wav_writer,       \* Option<WavWriter>: <<>> or <<[idx, duration]>>
    silence_frames,   \* consecutive silence frame counter
    wakenet,          \* AFE wake-word detection enabled
    res,              \* what the last iteration read of its inputs
    calls,            \* external calls made by the last fetch iteration, in order
    created,          \* indices passed to WavWriter::create so far, in order
    transcription_ch, \* mpsc channel fetch loop -> worker (TranscriptionMessage)
    response_ch,      \* mpsc channel worker -> fetch loop (String)
    message_history,  \* LlmHelper.message_history of the worker
    wcalls,           \* external calls made by the worker for the last message, in order
    text,             \* TTS chunker: input text (sequence of characters)
    max_chars,        \* TTS chunker: max_chunk_chars
    chunks,           \* TTS chunker: result of split_text_into_chunks, <<>> before the call
    fetch_task,       \* the fetch task: "running", or "failed" once inner_fetch_proc returned Err
    worker,           \* the worker thread: "running", or "terminated" once its loop was left
    feed_task,        \* the feed task: "running", or "failed" once inner_feed_proc returned Err
    fed,              \* what the engine's feed returned for each chunk fed so far, in order
    feed_log,         \* the error feed_proc logged, <<>> while the task runs
    llm               \* the LlmHelper's fields other than message_history

vars == <<variant, state, file_idx, wav_writer, silence_frames, wakenet, res, calls,
          created, transcription_ch, response_ch, message_history, wcalls,
          text, max_chars, chunks, fetch_task, worker, feed_task, fed, feed_log, llm>>

pipelineVars == <<variant, state, file_idx, wav_writer, silence_frames, wakenet, res,
                  calls, created, transcription_ch, response_ch, message_history, wcalls>>

chunkVars == <<text, max_chars, chunks>>

taskVars == <<fetch_task, worker>>

captureVars == <<feed_task, fed, feed_log>>

(***************************************************************************)
(* Bounds of the model.                                                    *)
(***************************************************************************)
MaxFiles == 4        \* at most this many recording files are created (guards of the creating steps)
MaxSamples == 2      \* a speech frame is only fetched while the session stays within this
MaxTextLen == 4      \* longest text given to the chunker
MaxChunkChars == 3   \* largest max_chunk_chars given to the chunker
MaxQueued == 3       \* SpecWorker: longest queue of control messages
MaxResponses == 4    \* SpecWorker: most responses queued and still to come
MaxHistory == 7      \* SpecWorker: longest conversation context
MaxFed == 6          \* SpecFeed: most chunks fed
MaxMessages == 3     \* SpecLlm: longest initial message history

(***************************************************************************)
(* Program constants.                                                      *)
(***************************************************************************)
SampleRate == 16000
FrameSizeAp == 256
FrameSizeMain == 480
SilenceSeconds == 2
BytesPerSample == 2

ExitPhrase == "zai_jian"              \* the literal "再见"
SystemPromptInit == "system_prompt_initial"
SystemPromptRestart == "system_prompt_restart"

\* a / b rounded to the nearest integer, halves up
Round(a, b) == (2 * a + b) \div (2 * b)

\* The quotient is rounded instead of truncated.
frames_per_second_Rounded == IF variant = "ap" THEN Round(SampleRate, FrameSizeAp)
                                               ELSE Round(SampleRate, FrameSizeMain)

\* let frames_per_second = 16000 / 256 (audio_processing.rs), 16000 / 480
\* (main.rs): integer division
frames_per_second == IF variant = "ap" THEN SampleRate \div FrameSizeAp
                                       ELSE SampleRate \div FrameSizeMain

SilenceThreshold == frames_per_second * SilenceSeconds


(***************************************************************************)
(* Values.                                                                 *)
(***************************************************************************)
None == <<>>
Some(x) == <<x>>

\* format!("/vfat/audio{}.wav", idx)
AudioPath(idx) == <<"/vfat/audio", idx, ".wav">>
NoPath == <<"", -1, "">>

TranscribeFile(path) == [type |-> "TranscribeFile", path |-> path]
RestartSession == [type |-> "RestartSession", path |-> NoPath]
Shutdown == [type |-> "Shutdown", path |-> NoPath]

ChatMessage(role, content) == [role |-> role, content |-> content]

\* An external call of the fetch loop: its name, its argument (a file index, a
\* count or a result code; -1 for none) and, for finalize, the samples written.
CallN(op, arg, n) == [op |-> op, arg |-> arg, samples |-> n]
Call(op, arg) == CallN(op, arg, 0)

\* What one iteration of the fetch loop read of the engine's results: the fetch
\* return, wakeup_state, vad_state and the state multinet's detect returned; "-" is
\* a field the iteration did not read. The sizes it read show in `calls`.
Res(ret, wakeup, vad, mn) ==
    [ret |-> ret, wakeup_state |-> wakeup, vad_state |-> vad, mn_state |-> mn]

\* Inputs of the model: sizes in bytes of the frame and of the pre-roll cache.
DataSizes == {BytesPerSample}
CacheSizes == {0, BytesPerSample}
WakeupStates == {"WAKENET_DETECTED", "WAKENET_NO_DETECT"}
VadStates == {"VAD_SILENCE", "VAD_SPEECH"}
MnStates == {"ESP_MN_STATE_DETECTING", "ESP_MN_STATE_DETECTED", "ESP_MN_STATE_TIMEOUT"}
FlushResults == {"Ok", "Err"}

\* Results of transcribe_audio: Ok(text) or Err.
Transcripts == {ExitPhrase, "ni_hao", ""}
TranscribeErr == "Error: transcribe_audio failed"
TranscribeResults == {[ok |-> TRUE, text |-> t] : t \in Transcripts}
                     \cup {[ok |-> FALSE, text |-> TranscribeErr]}

\* Results of make_api_request.
LlmReply == "llm_reply"
LlmNoChoices == "No response choices returned from API"
LlmError == "Error: make_api_request failed"
LlmOutcomes == {"ok", "no_choices", "error"}

\* Outcomes of TtsEngine::synthesize_and_play: every chunk played, or a chunk
\* failed in synthesize_chunk (logged inside, the call still returns Ok).
TtsOutcomes == {"played", "chunk_failed", "write_failed"}

\* str::starts_with("Error:") over the strings of the model.
StartsWithError(s) == s \in {TranscribeErr, LlmError}

(***************************************************************************)
(* The two mpsc channels.  A send on a channel whose receiver was dropped  *)
(* returns Err, which both senders only log.                               *)
(***************************************************************************)
\* arg.transcription_tx.send(msg): the channel after it
SendControl(ch, msg) == IF worker = "running" THEN Append(ch, msg) ELSE ch

\* response_tx.send(text): the channel after it
SendResponse(ch, r) == IF fetch_task = "running" THEN Append(ch, r) ELSE ch

\* rx.recv() takes the second message of the queue.
Received_Second(ch) == IF Len(ch) > 1 THEN ch[2] ELSE Head(ch)

\* rx.recv(): the message received
Received(ch) == Head(ch)

\* rx.recv(): the queue after it
Remaining(ch) == Tail(ch)

(***************************************************************************)
(* LlmHelper (llm_intf.rs).                                                *)
(***************************************************************************)
RECURSIVE FilterSystem(_)
FilterSystem(h) ==
    IF h = <<>> THEN <<>>
    ELSE IF Head(h).role = "system" THEN <<Head(h)>> \o FilterSystem(Tail(h))
    ELSE FilterSystem(Tail(h))

\* Every message is dropped, system messages too.
clear_history_Empties(h) == <<>>

\* LlmHelper::clear_history
clear_history(h) == IF h /= <<>> THEN FilterSystem(h) ELSE h

\* LlmHelper::make_api_request: the history after it and the result it returns.
make_api_request(h, outcome) ==
    CASE outcome = "ok" ->
            [history |-> Append(h, ChatMessage("assistant", LlmReply)),
             ok |-> TRUE, value |-> LlmReply]
      [] outcome = "no_choices" ->
            [history |-> h, ok |-> TRUE, value |-> LlmNoChoices]
      [] OTHER ->
            [history |-> h, ok |-> FALSE, value |-> LlmError]

\* LlmHelper::send_message: the history after it and the string it returns.
send_message(h, content, role, outcome) ==
    LET pushed == Append(h, ChatMessage(role, content)) IN
    IF role = "system" THEN [history |-> pushed, response |-> ""]
    ELSE LET r == make_api_request(pushed, outcome) IN
         [history |-> r.history, response |-> r.value]

\* Option<f32> arguments and f32 fields are in tenths: 7 is 0.7, 10 is 1.0.
DefaultEndpoint == "https://api.deepseek.com/chat/completions"

\* LlmHelper::new
new(api_token, model_name) ==
    [api_endpoint |-> DefaultEndpoint,
     api_token |-> api_token,
     model_name |-> model_name,
     message_history |-> <<>>,
     max_tokens |-> 2048,
     temperature |-> 10,
     top_p |-> 10]

\* Every parameter is assigned, a None as 0.
configure_Unconditional(helper, max_tokens, temperature, top_p) ==
    [helper EXCEPT !.max_tokens = IF max_tokens /= None THEN max_tokens[1] ELSE 0,
                   !.temperature = IF temperature /= None THEN temperature[1] ELSE 0,
                   !.top_p = IF top_p /= None THEN top_p[1] ELSE 0]

\* LlmHelper::configure
configure(helper, max_tokens, temperature, top_p) ==
    [helper EXCEPT !.max_tokens = IF max_tokens /= None THEN max_tokens[1] ELSE @,
                   !.temperature = IF temperature /= None THEN temperature[1] ELSE @,
                   !.top_p = IF top_p /= None THEN top_p[1] ELSE @]

\* The struct LlmHelper, from the two variables that hold it, and back.
LlmHelper(settings, history) ==
    [api_endpoint |-> settings.api_endpoint,
     api_token |-> settings.api_token,
     model_name |-> settings.model_name,
     message_history |-> history,
     max_tokens |-> settings.max_tokens,
     temperature |-> settings.temperature,
     top_p |-> settings.top_p]
Settings(helper) ==
    [api_endpoint |-> helper.api_endpoint,
     api_token |-> helper.api_token,
     model_name |-> helper.model_name,
     max_tokens |-> helper.max_tokens,
     temperature |-> helper.temperature,
     top_p |-> helper.top_p]

\* The worker's helper after LlmHelper::new(token, "deepseek-chat") and
\* configure(Some(512), Some(0.7), Some(0.9)).
WorkerLlm ==
    Settings(configure(new("LLM_AUTH_TOKEN", "deepseek-chat"),
                       Some(512), Some(7), Some(9)))

\* The worker's context after LlmHelper::new, configure and the priming message.
InitialHistory == send_message(<<>>, SystemPromptInit, "system", "ok").history

\* The handler adds the system message without clearing the history.
HandleRestartSession_KeepsTurns(h) ==
    send_message(h, SystemPromptRestart, "system", "ok").history

\* The worker's handling of RestartSession.
HandleRestartSession(h) ==
    send_message(clear_history(h), SystemPromptRestart, "system", "ok").history


(***************************************************************************)
(* The recording segmenter: pieces of inner_fetch_proc shared by its       *)
(* branches.                                                               *)
(***************************************************************************)
\* WavWriter::create(format!("/vfat/audio{}.wav", current_file_idx), spec)
NewWriter(idx) == [idx |-> idx, duration |-> 0]

\* writer.write_sample for each of `bytes / 2` samples
WriteSamples(w, bytes) == [w EXCEPT !.duration = @ + (bytes \div BytesPerSample)]

\* The writer stays in the variable after it was taken.
take_Leaves(w) == w

\* wav_writer.take(): what is left in the variable
take(w) == None

\* Every session counts as holding data.
has_data_Always(w) == TRUE

\* let has_data = writer.duration() > 0
has_data(w) == w.duration > 0

\* The path dispatched is the one of the file created next.
DispatchPath_Next(idx) == AudioPath(idx)

\* format!("/vfat/audio{}.wav", file_idx - 1)
DispatchPath(idx) == AudioPath(idx - 1)

\* The comparison is strict: one frame late.
ThresholdReached_Strict(sf) == sf > SilenceThreshold

\* silence_frames >= frames_per_second * 2
ThresholdReached(sf) == sf >= SilenceThreshold

\* The speech branch leaves the counter as it was.
SilenceAfterSpeech_Kept(sf) == sf

\* silence_frames = 0 in the speech branch
SilenceAfterSpeech(sf) == 0

\* The index is taken but never advanced.
FileIdxAfterCreate_NoIncrement(idx) == idx

\* file_idx += 1 after taking current_file_idx
FileIdxAfterCreate(idx) == idx + 1

\* file_idx += 1 on the exit command (audio_processing.rs)
FileIdxAfterExit(idx) == idx + 1

\* Any response ends the session, not only the exit phrase.
IsExitCommand_AnyResponse(transcription) == TRUE

\* if transcription == "再见" (audio_processing.rs)
IsExitCommand(transcription) == transcription = ExitPhrase

\* The call has no effect: wake detection stays off.
enable_wakenet_NoEffect == FALSE

\* call_c_method!(afe_handle, enable_wakenet, afe_data): the setting after it
enable_wakenet == TRUE

\* call_c_method!(afe_handle, disable_wakenet, afe_data): the setting after it
disable_wakenet == FALSE

(***************************************************************************)
(* inner_fetch_proc: a fetch that returns null or ESP_FAIL (both builds).   *)
(***************************************************************************)
\* The iteration polls the response channel before it retries.
SkippedPoll_Polls(ch) == IF ch /= <<>> THEN Tail(ch) ELSE ch

\* `continue` leaves the iteration before the state match and its try_recv: the
\* response channel after the iteration
SkippedPoll(ch) == ch

FetchFailed ==
    /\ fetch_task = "running"
    /\ \E ret \in {"null", "ESP_FAIL"} :
          res' = Res(ret, "-", "-", "-")
    /\ calls' = <<Call("sleep", 10)>>
    /\ response_ch' = SkippedPoll(response_ch)
    /\ UNCHANGED <<variant, state, file_idx, wav_writer, silence_frames, wakenet,
                   created, transcription_ch, message_history, wcalls>>
    /\ UNCHANGED chunkVars
    /\ UNCHANGED captureVars
    /\ UNCHANGED llm
    /\ UNCHANGED taskVars

(***************************************************************************)
(* inner_fetch_proc of audio_processing.rs.                                *)
(***************************************************************************)
ApWakeWordDetecting ==
    /\ variant = "ap"
    /\ fetch_task = "running"
    /\ state = "WakeWordDetecting"
    /\ \E wakeup \in WakeupStates :
          /\ res' = Res("ok", wakeup, "-", "-")
          /\ IF wakeup = "WAKENET_DETECTED"
             THEN /\ Len(created) < MaxFiles
                  /\ wakenet' = disable_wakenet
                  /\ transcription_ch' = SendControl(transcription_ch, RestartSession)
                  /\ created' = Append(created, file_idx)
                  /\ file_idx' = FileIdxAfterCreate(file_idx)
                  /\ wav_writer' = Some(NewWriter(file_idx))
                  /\ silence_frames' = 0
                  /\ state' = "Recording"
                  /\ calls' = <<Call("disable_wakenet", -1), Call("send_restart", -1),
                                Call("create", file_idx)>>
             ELSE /\ calls' = <<>>
                  /\ UNCHANGED <<wakenet, transcription_ch, created, file_idx,
                                 wav_writer, silence_frames, state>>
    /\ UNCHANGED <<variant, response_ch, message_history, wcalls>>
    /\ UNCHANGED chunkVars
    /\ UNCHANGED captureVars
    /\ UNCHANGED llm
    /\ UNCHANGED taskVars

\* The exit command arm of the Recording state.
ApExitCommand ==
    /\ res' = Res("ok", "-", "-", "-")
    /\ wav_writer' = take(wav_writer)
    /\ file_idx' = FileIdxAfterExit(file_idx)
    /\ wakenet' = enable_wakenet
    /\ state' = "WakeWordDetecting"
    /\ calls' = (IF wav_writer /= None
                 THEN <<CallN("finalize", wav_writer[1].idx, wav_writer[1].duration)>>
                 ELSE <<>>)
                \o <<Call("enable_wakenet", -1)>>
    /\ UNCHANGED <<silence_frames, created, transcription_ch>>

\* The silence arm of the Recording state.
ApSilence(flush) ==
    LET sf == silence_frames + 1 IN
    /\ res' = Res("ok", "-", "VAD_SILENCE", "-")
    /\ IF ThresholdReached(sf)
       THEN /\ silence_frames' = 0
            /\ IF wav_writer /= None /\ has_data(wav_writer[1])
               THEN /\ Len(created) < MaxFiles
                    /\ transcription_ch' =
                          SendControl(transcription_ch,
                                      TranscribeFile(DispatchPath(file_idx)))
                    /\ created' = Append(created, file_idx)
                    /\ file_idx' = FileIdxAfterCreate(file_idx)
                    /\ wav_writer' = Some(NewWriter(file_idx))
                    /\ calls' = <<CallN("finalize", wav_writer[1].idx,
                                        wav_writer[1].duration),
                                  Call("flush_filesystem", IF flush = "Ok" THEN 1 ELSE 0),
                                  Call("send_transcribe", file_idx - 1),
                                  Call("create", file_idx)>>
               ELSE /\ calls' = <<>>
                    /\ UNCHANGED <<transcription_ch, created, file_idx, wav_writer>>
       ELSE /\ silence_frames' = sf
            /\ calls' = <<>>
            /\ UNCHANGED <<transcription_ch, created, file_idx, wav_writer>>
    /\ UNCHANGED <<wakenet, state>>

\* The speech arm of the Recording state.
ApSpeech(cache, data) ==
    /\ res' = Res("ok", "-", "VAD_SPEECH", "-")
    /\ IF wav_writer /= None
       THEN /\ wav_writer[1].duration + (cache + data) \div BytesPerSample <= MaxSamples
            /\ wav_writer' = Some(WriteSamples(WriteSamples(wav_writer[1], cache), data))
            /\ calls' = (IF cache > 0 THEN <<Call("write_cache", cache \div BytesPerSample)>>
                                      ELSE <<>>)
                        \o <<Call("write_data", data \div BytesPerSample)>>
       ELSE /\ calls' = <<>>
            /\ UNCHANGED wav_writer
    /\ silence_frames' = SilenceAfterSpeech(silence_frames)
    /\ UNCHANGED <<wakenet, state, transcription_ch, created, file_idx>>

ApRecording ==
    /\ variant = "ap"
    /\ fetch_task = "running"
    /\ state = "Recording"
    /\ LET polled == IF response_ch /= <<>> THEN Some(Head(response_ch)) ELSE None IN
       /\ response_ch' = IF response_ch /= <<>> THEN Tail(response_ch) ELSE response_ch
       /\ IF polled /= None /\ IsExitCommand(polled[1])
          THEN ApExitCommand
          ELSE \E vad \in VadStates, cache \in CacheSizes, data \in DataSizes,
                  flush \in FlushResults :
                  IF vad = "VAD_SILENCE" THEN ApSilence(flush)
                                         ELSE ApSpeech(cache, data)
    /\ UNCHANGED <<variant, message_history, wcalls>>
    /\ UNCHANGED chunkVars
    /\ UNCHANGED captureVars
    /\ UNCHANGED llm
    /\ UNCHANGED taskVars


\* A call that returned Err, propagated by `?` out of inner_fetch_proc.
FailedCall(op, arg) == CallN(op, arg, -1)

\* fetch_proc after inner_fetch_proc returned Err: the error is logged and the
\* task function returns.
TaskAfterError == "failed"

\* One iteration of inner_fetch_proc (audio_processing.rs) in which a call
\* returns Err: what the iteration did before that call, then the return.
ApFailure ==
    /\ variant = "ap"
    /\ fetch_task = "running"
    /\ fetch_task' = TaskAfterError
    /\ LET polled == IF response_ch /= <<>> THEN Some(Head(response_ch)) ELSE None
           rest == IF response_ch /= <<>> THEN Tail(response_ch) ELSE response_ch
           exit == polled /= None /\ IsExitCommand(polled[1])
       IN
       \/ \* call_c_method!(afe_handle, fetch, afe_data)?
          /\ res' = Res("Err", "-", "-", "-")
          /\ calls' = <<FailedCall("fetch", -1)>>
          /\ UNCHANGED <<state, file_idx, wav_writer, silence_frames, wakenet,
                         transcription_ch, response_ch>>
       \/ \* call_c_method!(afe_handle, disable_wakenet, afe_data)?
          /\ state = "WakeWordDetecting"
          /\ res' = Res("ok", "WAKENET_DETECTED", "-", "-")
          /\ calls' = <<FailedCall("disable_wakenet", -1)>>
          /\ UNCHANGED <<state, file_idx, wav_writer, silence_frames, wakenet,
                         transcription_ch, response_ch>>
       \/ \* WavWriter::create(..)? on the wake word
          /\ state = "WakeWordDetecting"
          /\ Len(created) < MaxFiles
          /\ res' = Res("ok", "WAKENET_DETECTED", "-", "-")
          /\ wakenet' = disable_wakenet
          /\ transcription_ch' = SendControl(transcription_ch, RestartSession)
          /\ file_idx' = FileIdxAfterCreate(file_idx)
          /\ calls' = <<Call("disable_wakenet", -1), Call("send_restart", -1),
                        FailedCall("create", file_idx)>>
          /\ UNCHANGED <<state, wav_writer, silence_frames, response_ch>>
       \/ \* writer.finalize()? on the exit command
          /\ state = "Recording" /\ exit /\ wav_writer /= None
          /\ res' = Res("ok", "-", "-", "-")
          /\ response_ch' = rest
          /\ wav_writer' = None
          /\ calls' = <<FailedCall("finalize", wav_writer[1].idx)>>
          /\ UNCHANGED <<state, file_idx, silence_frames, wakenet, transcription_ch>>
       \/ \* call_c_method!(afe_handle, enable_wakenet, afe_data)? on the exit command
          /\ state = "Recording" /\ exit
          /\ res' = Res("ok", "-", "-", "-")
          /\ response_ch' = rest
          /\ wav_writer' = None
          /\ file_idx' = FileIdxAfterExit(file_idx)
          /\ calls' = (IF wav_writer /= None
                       THEN <<CallN("finalize", wav_writer[1].idx, wav_writer[1].duration)>>
                       ELSE <<>>)
                      \o <<FailedCall("enable_wakenet", -1)>>
          /\ UNCHANGED <<state, silence_frames, wakenet, transcription_ch>>
       \/ \* writer.finalize()? at the silence threshold
          /\ state = "Recording" /\ ~exit
          /\ ThresholdReached(silence_frames + 1)
          /\ wav_writer /= None /\ has_data(wav_writer[1])
          /\ res' = Res("ok", "-", "VAD_SILENCE", "-")
          /\ response_ch' = rest
          /\ silence_frames' = silence_frames + 1
          /\ wav_writer' = None
          /\ calls' = <<FailedCall("finalize", wav_writer[1].idx)>>
          /\ UNCHANGED <<state, file_idx, wakenet, transcription_ch>>
       \/ \* WavWriter::create(..)? at the silence threshold
          /\ state = "Recording" /\ ~exit
          /\ ThresholdReached(silence_frames + 1)
          /\ wav_writer /= None /\ has_data(wav_writer[1])
          /\ Len(created) < MaxFiles
          /\ \E flush \in FlushResults :
                calls' = <<CallN("finalize", wav_writer[1].idx, wav_writer[1].duration),
                           Call("flush_filesystem", IF flush = "Ok" THEN 1 ELSE 0),
                           Call("send_transcribe", file_idx - 1),
                           FailedCall("create", file_idx)>>
          /\ res' = Res("ok", "-", "VAD_SILENCE", "-")
          /\ response_ch' = rest
          /\ silence_frames' = silence_frames + 1
          /\ wav_writer' = None
          /\ transcription_ch' = SendControl(transcription_ch,
                                             TranscribeFile(DispatchPath(file_idx)))
          /\ file_idx' = FileIdxAfterCreate(file_idx)
          /\ UNCHANGED <<state, wakenet>>
       \/ \* writer.write_sample(sample)? on a speech frame
          /\ state = "Recording" /\ ~exit
          /\ wav_writer /= None
          /\ res' = Res("ok", "-", "VAD_SPEECH", "-")
          /\ response_ch' = rest
          /\ calls' = <<FailedCall("write_data", 0)>>
          /\ UNCHANGED <<state, file_idx, wav_writer, silence_frames, wakenet,
                         transcription_ch>>
    /\ UNCHANGED <<variant, created, message_history, wcalls, worker>>
    /\ UNCHANGED chunkVars
    /\ UNCHANGED captureVars
    /\ UNCHANGED llm

(***************************************************************************)
(* inner_fetch_proc of main.rs.                                            *)
(***************************************************************************)
MainWakeWordDetecting ==
    /\ variant = "main"
    /\ fetch_task = "running"
    /\ state = "WakeWordDetecting"
    /\ \E wakeup \in WakeupStates :
          /\ res' = Res("ok", wakeup, "-", "-")
          /\ IF wakeup = "WAKENET_DETECTED"
             THEN /\ wakenet' = disable_wakenet
                  /\ state' = "CmdDetecting"
                  /\ calls' = <<Call("disable_wakenet", -1), Call("clean", -1)>>
             ELSE /\ calls' = <<>>
                  /\ UNCHANGED <<wakenet, state>>
    /\ UNCHANGED <<variant, file_idx, wav_writer, silence_frames, created,
                   transcription_ch, response_ch, message_history, wcalls>>
    /\ UNCHANGED chunkVars
    /\ UNCHANGED captureVars
    /\ UNCHANGED llm
    /\ UNCHANGED taskVars

MainCmdDetecting ==
    /\ variant = "main"
    /\ fetch_task = "running"
    /\ state = "CmdDetecting"
    /\ \E mn \in MnStates :
          /\ res' = Res("ok", "-", "-", mn)
          /\ CASE mn = "ESP_MN_STATE_DETECTED" ->
                    /\ Len(created) < MaxFiles
                    /\ created' = Append(created, file_idx)
                    /\ file_idx' = FileIdxAfterCreate(file_idx)
                    /\ wav_writer' = Some(NewWriter(file_idx))
                    /\ silence_frames' = 0
                    /\ state' = "Recording"
                    /\ calls' = <<Call("detect", -1), Call("get_results", -1),
                                  Call("create", file_idx)>>
                    /\ UNCHANGED wakenet
               [] mn = "ESP_MN_STATE_TIMEOUT" ->
                    /\ wakenet' = enable_wakenet
                    /\ state' = "WakeWordDetecting"
                    /\ calls' = <<Call("detect", -1), Call("enable_wakenet", -1)>>
                    /\ UNCHANGED <<created, file_idx, wav_writer, silence_frames>>
               [] OTHER ->
                    /\ calls' = <<Call("detect", -1)>>
                    /\ UNCHANGED <<created, file_idx, wav_writer, silence_frames,
                                   state, wakenet>>
    /\ UNCHANGED <<variant, transcription_ch, response_ch, message_history, wcalls>>
    /\ UNCHANGED chunkVars
    /\ UNCHANGED captureVars
    /\ UNCHANGED llm
    /\ UNCHANGED taskVars

MainRecording ==
    /\ variant = "main"
    /\ fetch_task = "running"
    /\ state = "Recording"
    /\ \E vad \in VadStates, data \in DataSizes, flush \in FlushResults :
          LET written == IF wav_writer /= None
                         THEN Some(WriteSamples(wav_writer[1], data)) ELSE None
              wcall == IF wav_writer /= None
                       THEN <<Call("write_data", data \div BytesPerSample)>> ELSE <<>>
              sf == silence_frames + 1
          IN
          /\ res' = Res("ok", "-", vad, "-")
          /\ IF vad = "VAD_SILENCE"
             THEN /\ silence_frames' = sf
                  /\ IF ThresholdReached(sf)
                     THEN /\ wav_writer' = take(wav_writer)
                          /\ transcription_ch' =
                                IF written /= None /\ flush = "Ok"
                                THEN SendControl(transcription_ch,
                                                 TranscribeFile(DispatchPath(file_idx)))
                                ELSE transcription_ch
                          /\ wakenet' = enable_wakenet
                          /\ state' = "WakeWordDetecting"
                          /\ calls' = wcall
                                \o (IF written /= None
                                    THEN <<CallN("finalize", written[1].idx, written[1].duration),
                                           Call("flush_filesystem",
                                                IF flush = "Ok" THEN 1 ELSE 0)>>
                                         \o (IF flush = "Ok"
                                             THEN <<Call("send_transcribe", file_idx - 1)>>
                                             ELSE <<>>)
                                    ELSE <<>>)
                                \o <<Call("enable_wakenet", -1)>>
                     ELSE /\ wav_writer' = written
                          /\ calls' = wcall
                          /\ UNCHANGED <<transcription_ch, wakenet, state>>
             ELSE /\ wav_writer /= None =>
                        wav_writer[1].duration + data \div BytesPerSample <= MaxSamples
                  /\ wav_writer' = written
                  /\ silence_frames' = SilenceAfterSpeech(silence_frames)
                  /\ calls' = wcall
                  /\ UNCHANGED <<transcription_ch, wakenet, state>>
    /\ UNCHANGED <<variant, file_idx, created, response_ch, message_history, wcalls>>
    /\ UNCHANGED chunkVars
    /\ UNCHANGED captureVars
    /\ UNCHANGED llm
    /\ UNCHANGED taskVars

\* One iteration of inner_fetch_proc (main.rs) in which a call returns Err.
MainFailure ==
    /\ variant = "main"
    /\ fetch_task = "running"
    /\ fetch_task' = TaskAfterError
    /\ \/ \* call_c_method!(afe_handle, fetch, afe_data)?
          /\ res' = Res("Err", "-", "-", "-")
          /\ calls' = <<FailedCall("fetch", -1)>>
          /\ UNCHANGED <<state, file_idx, wav_writer, silence_frames, wakenet,
                         transcription_ch>>
       \/ \* disable_wakenet? or clean? on the wake word
          /\ state = "WakeWordDetecting"
          /\ res' = Res("ok", "WAKENET_DETECTED", "-", "-")
          /\ \/ /\ calls' = <<FailedCall("disable_wakenet", -1)>>
                /\ UNCHANGED wakenet
             \/ /\ calls' = <<Call("disable_wakenet", -1), FailedCall("clean", -1)>>
                /\ wakenet' = disable_wakenet
          /\ UNCHANGED <<state, file_idx, wav_writer, silence_frames, transcription_ch>>
       \/ \* call_c_method!(multinet, detect, model_data, (*res).data)?
          /\ state = "CmdDetecting"
          /\ res' = Res("ok", "-", "-", "Err")
          /\ calls' = <<FailedCall("detect", -1)>>
          /\ UNCHANGED <<state, file_idx, wav_writer, silence_frames, wakenet,
                         transcription_ch>>
       \/ \* get_results? or WavWriter::create(..)? on a command
          /\ state = "CmdDetecting"
          /\ res' = Res("ok", "-", "-", "ESP_MN_STATE_DETECTED")
          /\ \/ /\ calls' = <<Call("detect", -1), FailedCall("get_results", -1)>>
                /\ UNCHANGED file_idx
             \/ /\ Len(created) < MaxFiles
                /\ calls' = <<Call("detect", -1), Call("get_results", -1),
                              FailedCall("create", file_idx)>>
                /\ file_idx' = FileIdxAfterCreate(file_idx)
          /\ UNCHANGED <<state, wav_writer, silence_frames, wakenet, transcription_ch>>
       \/ \* call_c_method!(afe_handle, enable_wakenet, afe_data)? on the timeout
          /\ state = "CmdDetecting"
          /\ res' = Res("ok", "-", "-", "ESP_MN_STATE_TIMEOUT")
          /\ calls' = <<Call("detect", -1), FailedCall("enable_wakenet", -1)>>
          /\ UNCHANGED <<state, file_idx, wav_writer, silence_frames, wakenet,
                         transcription_ch>>
       \/ \* writer.write_sample(sample)? on any frame
          /\ state = "Recording"
          /\ wav_writer /= None
          /\ \E vad \in VadStates : res' = Res("ok", "-", vad, "-")
          /\ calls' = <<FailedCall("write_data", 0)>>
          /\ UNCHANGED <<state, file_idx, wav_writer, silence_frames, wakenet,
                         transcription_ch>>
       \/ \* writer.finalize()? or enable_wakenet? at the silence threshold
          /\ state = "Recording"
          /\ ThresholdReached(silence_frames + 1)
          /\ wav_writer /= None
          /\ res' = Res("ok", "-", "VAD_SILENCE", "-")
          /\ silence_frames' = silence_frames + 1
          /\ wav_writer' = None
          /\ LET written == WriteSamples(wav_writer[1], BytesPerSample)
                 wcall == <<Call("write_data", 1)>>
             IN
             \/ /\ calls' = wcall \o <<FailedCall("finalize", written.idx)>>
                /\ UNCHANGED transcription_ch
             \/ \E flush \in FlushResults :
                   /\ transcription_ch' =
                         IF flush = "Ok"
                         THEN SendControl(transcription_ch,
                                          TranscribeFile(DispatchPath(file_idx)))
                         ELSE transcription_ch
                   /\ calls' = wcall
                         \o <<CallN("finalize", written.idx, written.duration),
                              Call("flush_filesystem", IF flush = "Ok" THEN 1 ELSE 0)>>
                         \o (IF flush = "Ok"
                             THEN <<Call("send_transcribe", file_idx - 1)>> ELSE <<>>)
                         \o <<FailedCall("enable_wakenet", -1)>>
          /\ UNCHANGED <<state, file_idx, wakenet>>
    /\ UNCHANGED <<variant, created, response_ch, message_history, wcalls, worker>>
    /\ UNCHANGED chunkVars
    /\ UNCHANGED captureVars
    /\ UNCHANGED llm

(***************************************************************************)
(* inner_feed_proc: the capture loop (both builds).                        *)
(***************************************************************************)
\* What the engine's feed can return: the size it took, or a failure code.
FeedReturns == {"size", "ESP_FAIL"}

\* One iteration: mic.read(..)? returned Ok, the call of feed was made and its
\* return value dropped (`let _ = call_c_method!(.., feed, ..)?`).
FeedIteration ==
    /\ feed_task = "running"
    /\ Len(fed) < MaxFed
    /\ \E ret \in FeedReturns : fed' = Append(fed, ret)
    /\ UNCHANGED <<feed_task, feed_log>>
    /\ UNCHANGED pipelineVars
    /\ UNCHANGED chunkVars
    /\ UNCHANGED taskVars
    /\ UNCHANGED llm

\* One iteration in which mic.read returns Err, or call_c_method! returns Err
\* (null handle, or no `feed` entry): `?` returns from inner_feed_proc, and
\* feed_proc logs "Feed task failed" and returns.
FeedFailure ==
    /\ feed_task = "running"
    /\ feed_task' = "failed"
    /\ \E failed \in {"mic.read", "feed"} : feed_log' = <<failed>>
    /\ UNCHANGED fed
    /\ UNCHANGED pipelineVars
    /\ UNCHANGED chunkVars
    /\ UNCHANGED taskVars
    /\ UNCHANGED llm

NextFeed == FeedIteration \/ FeedFailure

(***************************************************************************)
(* transcription_worker of transcription.rs: one action per message.       *)
(***************************************************************************)
WCall(op, arg) == [op |-> op, arg |-> arg]

GoodbyeUtterance == ExitPhrase

\* tts_engine.synthesize_and_play(text, ..) as the worker calls it, and the
\* error synthesize_and_play logs when a chunk fails.
Speak(utterance, tts) ==
    <<WCall("synthesize_and_play", utterance)>>
    \o (CASE tts = "chunk_failed" -> <<WCall("log_error", "synthesize_chunk")>>
          [] tts = "write_failed" -> <<WCall("log_error", "i2s_write")>>
          [] OTHER -> <<>>)

\* The goodbye branch is never taken.
IsGoodbye_Never(transcription) == FALSE

\* if transcription == "再见" (transcription.rs)
IsGoodbye(transcription) == transcription = ExitPhrase

\* No transcript is forwarded.
IsForwarded_Never(transcription) == FALSE

\* if transcription != "" (transcription.rs)
IsForwarded(transcription) == transcription /= ""

\* The handling of TranscribeFile, with the outcomes TTS playback may have.
HandleTranscribeFile(ttsOutcomes) ==
    /\ variant = "ap"
    /\ worker = "running"
    /\ transcription_ch /= <<>>
    /\ Received(transcription_ch).type = "TranscribeFile"
    /\ transcription_ch' = Remaining(transcription_ch)
    /\ \E tr \in TranscribeResults, outcome \in LlmOutcomes, tts \in ttsOutcomes :
          LET sent == send_message(message_history, tr.text, "user", outcome) IN
          CASE ~tr.ok ->
                 /\ response_ch' = SendResponse(response_ch, tr.text)
                 /\ wcalls' = <<WCall("read", Received(transcription_ch).path),
                                WCall("transcribe_audio", "Err"),
                                WCall("send_response", tr.text)>>
                 /\ UNCHANGED message_history
            [] tr.ok /\ ~IsForwarded(tr.text) ->
                 /\ wcalls' = <<WCall("read", Received(transcription_ch).path),
                                WCall("transcribe_audio", tr.text)>>
                 /\ UNCHANGED <<response_ch, message_history>>
            [] tr.ok /\ IsForwarded(tr.text) /\ IsGoodbye(tr.text) ->
                 /\ response_ch' = SendResponse(response_ch, tr.text)
                 /\ wcalls' = <<WCall("read", Received(transcription_ch).path),
                                WCall("transcribe_audio", tr.text),
                                WCall("send_response", tr.text)>>
                               \o Speak(GoodbyeUtterance, tts)
                 /\ UNCHANGED message_history
            [] OTHER ->
                 /\ response_ch' = SendResponse(response_ch, tr.text)
                 /\ message_history' = sent.history
                 /\ wcalls' = <<WCall("read", Received(transcription_ch).path),
                                WCall("transcribe_audio", tr.text),
                                WCall("send_response", tr.text),
                                WCall("send_message", tr.text)>>
                               \o (IF StartsWithError(sent.response) THEN <<>>
                                   ELSE Speak(sent.response, tts))
    /\ UNCHANGED <<variant, state, file_idx, wav_writer, silence_frames, wakenet, res,
                   calls, created>>
    /\ UNCHANGED chunkVars
    /\ UNCHANGED captureVars
    /\ UNCHANGED llm
    /\ UNCHANGED taskVars

\* TranscribeFile handled with a TTS engine that plays every chunk.
WorkerTranscribeFile == HandleTranscribeFile({"played"})

\* TranscribeFile handled with a TTS engine that may fail on a chunk.
WorkerTranscribeFileTts == HandleTranscribeFile(TtsOutcomes)

WorkerRestartSession ==
    /\ variant = "ap"
    /\ worker = "running"
    /\ transcription_ch /= <<>>
    /\ Received(transcription_ch).type = "RestartSession"
    /\ transcription_ch' = Remaining(transcription_ch)
    /\ message_history' = HandleRestartSession(message_history)
    /\ wcalls' = <<WCall("clear_history", ""), WCall("send_message", SystemPromptRestart)>>
    /\ UNCHANGED <<variant, state, file_idx, wav_writer, silence_frames, wakenet, res,
                   calls, created, response_ch>>
    /\ UNCHANGED chunkVars
    /\ UNCHANGED captureVars
    /\ UNCHANGED llm
    /\ UNCHANGED taskVars

\* The worker leaves its loop as soon as a Shutdown is queued, wherever it is.
ShutdownReceived_Peeked(ch) == \E k \in DOMAIN ch : ch[k].type = "Shutdown"

\* Ok(TranscriptionMessage::Shutdown) => break
ShutdownReceived(ch) == ch /= <<>> /\ Received(ch).type = "Shutdown"

WorkerShutdown ==
    /\ variant = "ap"
    /\ worker = "running"
    /\ ShutdownReceived(transcription_ch)
    /\ transcription_ch' = Remaining(transcription_ch)
    /\ worker' = "terminated"
    /\ wcalls' = <<>>
    /\ UNCHANGED <<variant, state, file_idx, wav_writer, silence_frames, wakenet, res,
                   calls, created, response_ch, message_history, fetch_task>>
    /\ UNCHANGED chunkVars
    /\ UNCHANGED captureVars
    /\ UNCHANGED llm

\* recv returns Err as soon as the queue is empty, as try_recv would.
Disconnected_WhenEmpty(ch) == ch = <<>>

\* Err(e) from rx.recv(): the queue is empty and every Sender was dropped; the
\* fetch task holds the Sender (FetchTaskArg) and drops it when it returns.
Disconnected(ch) == ch = <<>> /\ fetch_task = "failed"

WorkerDisconnected ==
    /\ variant = "ap"
    /\ worker = "running"
    /\ Disconnected(transcription_ch)
    /\ worker' = "terminated"
    /\ wcalls' = <<>>
    /\ UNCHANGED <<variant, state, file_idx, wav_writer, silence_frames, wakenet, res,
                   calls, created, transcription_ch, response_ch, message_history,
                   fetch_task>>
    /\ UNCHANGED chunkVars
    /\ UNCHANGED captureVars
    /\ UNCHANGED llm

\* TtsEngine::new_with_config returns Err before the worker's receive loop:
\* transcription_worker returns it, its Receiver and its response Sender are
\* dropped with whatever was queued, and the thread ends.  The fetch task was
\* given its ends of the channels before and keeps running.
WorkerInitFailed ==
    /\ variant = "ap"
    /\ worker = "running"
    /\ wcalls = <<>>
    /\ worker' = "terminated"
    /\ transcription_ch' = <<>>
    /\ UNCHANGED <<variant, state, file_idx, wav_writer, silence_frames, wakenet, res,
                   calls, created, response_ch, message_history, wcalls, fetch_task>>
    /\ UNCHANGED chunkVars
    /\ UNCHANGED captureVars
    /\ UNCHANGED llm

\* The messages a holder of the Sender returned by start_transcription_worker
\* may send.
ControlMessages ==
    {TranscribeFile(AudioPath(i)) : i \in {0, 1}}
    \cup {RestartSession, Shutdown}

\* The holder of the Sender sends a message.  The fetch loop is such a holder;
\* it sends TranscribeFile and RestartSession only.
ControlSent ==
    /\ variant = "ap"
    /\ fetch_task = "running"
    /\ Len(transcription_ch) < MaxQueued
    /\ Len(response_ch) + Len(transcription_ch) < MaxResponses
    /\ Len(message_history) + 2 * Len(transcription_ch) + 2 <= MaxHistory
    /\ \E msg \in ControlMessages :
          transcription_ch' = SendControl(transcription_ch, msg)
    /\ UNCHANGED <<variant, state, file_idx, wav_writer, silence_frames, wakenet, res,
                   calls, created, response_ch, message_history, wcalls>>
    /\ UNCHANGED chunkVars
    /\ UNCHANGED captureVars
    /\ UNCHANGED llm
    /\ UNCHANGED taskVars

\* The holder of the Sender drops it: fetch_proc returns and frees FetchTaskArg.
SenderDropped ==
    /\ variant = "ap"
    /\ fetch_task = "running"
    /\ fetch_task' = TaskAfterError
    /\ UNCHANGED <<variant, state, file_idx, wav_writer, silence_frames, wakenet, res,
                   calls, created, transcription_ch, response_ch, message_history,
                   wcalls, worker>>
    /\ UNCHANGED chunkVars
    /\ UNCHANGED captureVars
    /\ UNCHANGED llm

(***************************************************************************)
(* The pipeline.                                                           *)
(***************************************************************************)
Init ==
    /\ variant \in {"main", "ap"}
    /\ state = "WakeWordDetecting"
    /\ file_idx = 0
    /\ wav_writer = None
    /\ silence_frames = 0
    /\ wakenet = TRUE
    /\ res = Res("-", "-", "-", "-")
    /\ calls = <<>>
    /\ created = <<>>
    /\ transcription_ch = <<>>
    /\ response_ch = <<>>
    /\ message_history = InitialHistory
    /\ wcalls = <<>>
    /\ text = <<>>
    /\ max_chars = 1
    /\ chunks = <<>>
    /\ fetch_task = "running"
    /\ worker = "running"
    /\ feed_task = "running"
    /\ fed = <<>>
    /\ feed_log = <<>>
    /\ llm = WorkerLlm

Next ==
    \/ ApWakeWordDetecting
    \/ ApRecording
    \/ MainWakeWordDetecting
    \/ MainCmdDetecting
    \/ MainRecording
    \/ WorkerTranscribeFile
    \/ WorkerRestartSession

Spec == Init /\ [][Next]_vars

\* The pipeline with the engine's transient fetch failures.
NextWithFaults == Next \/ FetchFailed

\* The pipeline with calls of the fetch loop that return Err, which end the
\* fetch task and so close the control channel.
NextWithFailures ==
    \/ Next
    \/ ApFailure
    \/ MainFailure
    \/ WorkerDisconnected

SpecWithFailures == Init /\ [][NextWithFailures]_vars

\* The worker alone, given any sequence of control messages by the holder of
\* the Sender.
InitWorker == Init /\ variant = "ap"

NextWorker ==
    \/ ControlSent
    \/ SenderDropped
    \/ WorkerTranscribeFileTts
    \/ WorkerRestartSession
    \/ WorkerShutdown
    \/ WorkerDisconnected

SpecWorker == InitWorker /\ [][NextWorker]_vars

\* The capture loop alone.
SpecFeed == Init /\ [][NextFeed]_vars

SpecWithFaults == Init /\ [][NextWithFaults]_vars

\* The pipeline with a worker whose initialization may fail.
NextWorkerInitFails == Next \/ WorkerInitFailed

SpecWorkerInitFails == Init /\ [][NextWorkerInitFails]_vars


(***************************************************************************)
(* LlmHelper on its own (llm_intf.rs): any helper, any history, and its    *)
(* methods that make no request.                                           *)
(***************************************************************************)
ChatRoles == {"system", "user", "assistant"}
Contents == {"a", "b"}
Histories ==
    UNION {[1..k -> {ChatMessage(r, c) : r \in ChatRoles, c \in Contents}] :
              k \in 0..MaxMessages}
ModelNames == {"deepseek-chat", "deepseek-reasoner"}
Option(S) == {None} \cup {Some(x) : x \in S}

\* let helper = LlmHelper::new("fake_token", model_name)
LlmNew ==
    /\ \E m \in ModelNames :
          LET helper == new("fake_token", m) IN
          /\ llm' = Settings(helper)
          /\ message_history' = helper.message_history
          /\ wcalls' = <<WCall("new", <<"fake_token", m>>)>>
    /\ UNCHANGED <<variant, state, file_idx, wav_writer, silence_frames, wakenet, res,
                   calls, created, transcription_ch, response_ch>>
    /\ UNCHANGED chunkVars
    /\ UNCHANGED taskVars
    /\ UNCHANGED captureVars

\* helper.configure(max_tokens, temperature, top_p)
LlmConfigure ==
    /\ \E mt \in Option({1024}), t \in Option({7}), p \in Option({9}) :
          LET helper == configure(LlmHelper(llm, message_history), mt, t, p) IN
          /\ llm' = Settings(helper)
          /\ message_history' = helper.message_history
          /\ wcalls' = <<WCall("configure", <<mt, t, p>>)>>
    /\ UNCHANGED <<variant, state, file_idx, wav_writer, silence_frames, wakenet, res,
                   calls, created, transcription_ch, response_ch>>
    /\ UNCHANGED chunkVars
    /\ UNCHANGED taskVars
    /\ UNCHANGED captureVars

\* helper.clear_history(); the call is recorded with the history it found.
LlmClearHistory ==
    /\ message_history' = clear_history(message_history)
    /\ wcalls' = <<WCall("clear_history", message_history)>>
    /\ UNCHANGED <<variant, state, file_idx, wav_writer, silence_frames, wakenet, res,
                   calls, created, transcription_ch, response_ch>>
    /\ UNCHANGED chunkVars
    /\ UNCHANGED taskVars
    /\ UNCHANGED captureVars
    /\ UNCHANGED llm

InitLlm ==
    /\ message_history \in Histories
    /\ llm \in {Settings(new("fake_token", m)) : m \in ModelNames}
    /\ variant = "ap"
    /\ state = "WakeWordDetecting"
    /\ file_idx = 0
    /\ wav_writer = None
    /\ silence_frames = 0
    /\ wakenet = TRUE
    /\ res = Res("-", "-", "-", "-")
    /\ calls = <<>>
    /\ created = <<>>
    /\ transcription_ch = <<>>
    /\ response_ch = <<>>
    /\ wcalls = <<>>
    /\ text = <<>>
    /\ max_chars = 1
    /\ chunks = <<>>
    /\ fetch_task = "running"
    /\ worker = "running"
    /\ feed_task = "running"
    /\ fed = <<>>
    /\ feed_log = <<>>

NextLlm == LlmNew \/ LlmConfigure \/ LlmClearHistory

SpecLlm == InitLlm /\ [][NextLlm]_vars


(***************************************************************************)
(* TtsEngine text chunking (tts.rs).  A text is a sequence of characters;  *)
(* the alphabet has one character of each class the code tells apart, in   *)
(* a one-byte (ASCII) and a three-byte (CJK) form.                         *)
(***************************************************************************)
Chars == {"a", "zh", ".", "zh_period", ",", "zh_comma", " "}
SentenceTerminators == {".", "zh_period"}
Commas == {",", "zh_comma"}
Whitespace == {" "}

\* UTF-8 width of a character
Utf8Len(c) == IF c \in {"zh", "zh_period", "zh_comma"} THEN 3 ELSE 1

\* str::len: the length in bytes
RECURSIVE ByteLen(_)
ByteLen(s) == IF s = <<>> THEN 0 ELSE Utf8Len(Head(s)) + ByteLen(Tail(s))

\* str::split(|c| seps.contains(c)): the pieces between separators, empty ones too
RECURSIVE SplitOn(_, _)
SplitOn(s, seps) ==
    IF s = <<>> THEN << <<>> >>
    ELSE LET rest == SplitOn(Tail(s), seps) IN
         IF Head(s) \in seps THEN << <<>> >> \o rest
         ELSE << <<Head(s)>> \o rest[1] >> \o Tail(rest)

RECURSIVE TrimStart(_)
TrimStart(s) == IF s /= <<>> /\ Head(s) \in Whitespace THEN TrimStart(Tail(s)) ELSE s

RECURSIVE TrimEnd(_)
TrimEnd(s) == IF s /= <<>> /\ s[Len(s)] \in Whitespace
              THEN TrimEnd(SubSeq(s, 1, Len(s) - 1)) ELSE s

\* str::trim
Trim(s) == TrimEnd(TrimStart(s))

\* The hard split cuts one character too late.
RECURSIVE CharChunks_OneMore(_, _)
CharChunks_OneMore(s, n) ==
    IF s = <<>> THEN <<>>
    ELSE IF Len(s) <= n + 1 THEN <<s>>
    ELSE <<SubSeq(s, 1, n + 1)>> \o CharChunks_OneMore(SubSeq(s, n + 2, Len(s)), n)

\* part.chars().collect::<Vec<char>>().chunks(max_chars)
RECURSIVE CharChunks(_, _)
CharChunks(s, n) ==
    IF s = <<>> THEN <<>>
    ELSE IF Len(s) <= n THEN <<s>>
    ELSE <<SubSeq(s, 1, n)>> \o CharChunks(SubSeq(s, n + 1, Len(s)), n)

\* if !current_chunk.is_empty() && current_chunk.len() + piece.len() + 1 > max_chars
\*     { chunks.push(current_chunk.clone()); current_chunk.clear(); }
PushIfOverflow(acc, piece, n) ==
    IF acc.current /= <<>> /\ ByteLen(acc.current) + ByteLen(piece) + 1 > n
    THEN [chunks |-> Append(acc.chunks, acc.current), current |-> <<>>]
    ELSE acc

\* if current_chunk.is_empty() { current_chunk = piece } else { push_str(" " + piece) }
Join(acc, piece) ==
    [chunks |-> acc.chunks,
     current |-> IF acc.current = <<>> THEN piece ELSE acc.current \o <<" ">> \o piece]

\* The chunk in progress at the end of the loop is not pushed.
PushRest_Drops(acc) == acc.chunks

\* if !current_chunk.is_empty() { chunks.push(current_chunk) }
PushRest(acc) ==
    IF acc.current /= <<>> THEN Append(acc.chunks, acc.current) ELSE acc.chunks

\* One iteration of `for part in parts` of split_long_sentence.
LongSentencePart(acc, rawPart, n) ==
    LET part == Trim(rawPart) IN
    IF part = <<>> THEN acc
    ELSE LET a1 == PushIfOverflow(acc, part, n) IN
         IF ByteLen(part) > n
         THEN LET a2 == IF a1.current /= <<>>
                        THEN [chunks |-> Append(a1.chunks, a1.current), current |-> <<>>]
                        ELSE a1
              IN [chunks |-> a2.chunks \o CharChunks(part, n), current |-> a2.current]
         ELSE Join(a1, part)

RECURSIVE LongSentenceLoop(_, _, _)
LongSentenceLoop(acc, parts, n) ==
    IF parts = <<>> THEN acc
    ELSE LongSentenceLoop(LongSentencePart(acc, Head(parts), n), Tail(parts), n)

\* TtsEngine::split_long_sentence
split_long_sentence(sentence, n) ==
    PushRest(LongSentenceLoop([chunks |-> <<>>, current |-> <<>>],
                              SplitOn(sentence, Commas), n))

\* `for sub_chunk in sub_chunks` of split_text_into_chunks
RECURSIVE SubChunkLoop(_, _, _)
SubChunkLoop(acc, subs, n) ==
    IF subs = <<>> THEN acc
    ELSE SubChunkLoop(Join(PushIfOverflow(acc, Head(subs), n), Head(subs)), Tail(subs), n)

\* One iteration of `for sentence in sentences` of split_text_into_chunks.
SentenceStep(acc, rawSentence, n) ==
    LET sentence == Trim(rawSentence) IN
    IF sentence = <<>> THEN acc
    ELSE LET a1 == PushIfOverflow(acc, sentence, n) IN
         IF ByteLen(sentence) > n
         THEN SubChunkLoop(a1, split_long_sentence(sentence, n), n)
         ELSE Join(a1, sentence)

RECURSIVE SentenceLoop(_, _, _)
SentenceLoop(acc, sentences, n) ==
    IF sentences = <<>> THEN acc
    ELSE SentenceLoop(SentenceStep(acc, Head(sentences), n), Tail(sentences), n)

\* TtsEngine::split_text_into_chunks
split_text_into_chunks(t, n) ==
    LET made == PushRest(SentenceLoop([chunks |-> <<>>, current |-> <<>>],
                                      SplitOn(t, SentenceTerminators), n))
    IN IF made = <<>> THEN <<t>> ELSE made

Texts == UNION {[1..k -> Chars] : k \in 0..MaxTextLen}

\* TtsEngine::preview_chunks on a text and a configuration
PreviewChunks ==
    /\ chunks = <<>>
    /\ chunks' = split_text_into_chunks(text, max_chars)
    /\ UNCHANGED <<text, max_chars>>
    /\ UNCHANGED pipelineVars
    /\ UNCHANGED taskVars
    /\ UNCHANGED captureVars
    /\ UNCHANGED llm

InitChunks ==
    /\ text \in Texts
    /\ max_chars \in 1..MaxChunkChars
    /\ chunks = <<>>
    /\ variant = "ap"
    /\ state = "WakeWordDetecting"
    /\ file_idx = 0
    /\ wav_writer = None
    /\ silence_frames = 0
    /\ wakenet = TRUE
    /\ res = Res("-", "-", "-", "-")
    /\ calls = <<>>
    /\ created = <<>>
    /\ transcription_ch = <<>>
    /\ response_ch = <<>>
    /\ message_history = InitialHistory
    /\ wcalls = <<>>
    /\ fetch_task = "running"
    /\ worker = "running"
    /\ feed_task = "running"
    /\ fed = <<>>
    /\ feed_log = <<>>
    /\ llm = WorkerLlm

SpecChunks == InitChunks /\ [][PreviewChunks]_vars

(***************************************************************************)
(* TtsEngine::synthesize_and_play and synthesize_chunk (tts.rs).           *)
(***************************************************************************)
\* What can happen to one chunk: it is played; CString::new or
\* esp_tts_parse_chinese fails; a write to I2S fails while it is streamed.
ChunkOutcomes == {"played", "parse_failed", "write_failed"}

\* TtsEngine::synthesize_chunk: its result and what it logs
synthesize_chunk(chunk, outcome) ==
    [ok |-> outcome /= "parse_failed",
     logged |-> IF outcome = "write_failed"
                THEN <<WCall("log_i2s_error", chunk)>> ELSE <<>>]

\* The first failing chunk ends the playback.
OnChunkError_Stops(rest) == <<>>

\* `continue` after a failed chunk: the chunks after it are still processed
OnChunkError(rest) == rest

\* The body of `for (i, chunk) in chunks.iter().enumerate()` from chunk i on.
RECURSIVE PlayFrom(_, _, _)
PlayFrom(cs, outcomes, i) ==
    IF i > Len(cs) THEN <<>>
    ELSE LET rest == PlayFrom(cs, outcomes, i + 1)
             r == synthesize_chunk(cs[i], outcomes[i])
         IN
         IF Trim(cs[i]) = <<>> THEN rest
         ELSE <<WCall("synthesize_chunk", cs[i])>> \o r.logged
              \o (IF r.ok THEN <<WCall("sleep", cs[i])>> \o rest
                  ELSE <<WCall("log_chunk_error", cs[i])>> \o OnChunkError(rest))

\* TtsEngine::synthesize_and_play: the calls it makes, then its result
synthesize_and_play(t, n, outcomes) ==
    PlayFrom(split_text_into_chunks(t, n), outcomes, 1) \o <<WCall("return", <<"Ok">>)>>

SynthesizeAndPlay ==
    /\ chunks = <<>>
    /\ wcalls = <<>>
    /\ LET cs == split_text_into_chunks(text, max_chars) IN
       /\ chunks' = cs
       /\ \E outcomes \in [1..Len(cs) -> ChunkOutcomes] :
             wcalls' = synthesize_and_play(text, max_chars, outcomes)
    /\ UNCHANGED <<text, max_chars>>
    /\ UNCHANGED <<variant, state, file_idx, wav_writer, silence_frames, wakenet, res,
                   calls, created, transcription_ch, response_ch, message_history>>
    /\ UNCHANGED taskVars
    /\ UNCHANGED captureVars
    /\ UNCHANGED llm

SpecPlay == InitChunks /\ [][SynthesizeAndPlay]_vars


(***************************************************************************)
(* Steps of the two threads, as seen on a pair of states.                  *)
(***************************************************************************)
\* One iteration of inner_fetch_proc (either build).
FetchIteration ==
    \/ ApWakeWordDetecting
    \/ ApRecording
    \/ MainWakeWordDetecting
    \/ MainCmdDetecting
    \/ MainRecording

\* The iteration polled the exit phrase from the response channel.
ExitPolled ==
    /\ ApRecording
    /\ response_ch /= <<>>
    /\ Head(response_ch) = ExitPhrase

\* The iteration read a Silence frame that brought the counter to the threshold.
SilenceThresholdHit ==
    /\ FetchIteration
    /\ state = "Recording"
    /\ res'.vad_state = "VAD_SILENCE"
    /\ silence_frames + 1 >= SilenceThreshold

\* The message the iteration appended to the transcription channel, if any.
Sent ==
    IF Len(transcription_ch') = Len(transcription_ch) + 1
    THEN Some(transcription_ch'[Len(transcription_ch')]) ELSE None

\* The iteration made the call `op`.
Called(op) == \E k \in DOMAIN calls' : calls'[k].op = op

(***************************************************************************)
(* C1. State-machine integrity.                                            *)
(***************************************************************************)
\* The transitions of the table: wake, command matched, timeout, silence
\* threshold, exit phrase.
TableTransition ==
    \/ /\ state = "WakeWordDetecting" /\ state' = "CmdDetecting"
       /\ res'.wakeup_state = "WAKENET_DETECTED"
    \/ /\ state = "CmdDetecting" /\ state' = "Recording"
       /\ res'.mn_state = "ESP_MN_STATE_DETECTED"
    \/ /\ state = "CmdDetecting" /\ state' = "WakeWordDetecting"
       /\ res'.mn_state = "ESP_MN_STATE_TIMEOUT"
    \/ /\ state = "Recording" /\ state' = "WakeWordDetecting"
       /\ (SilenceThresholdHit \/ ExitPolled)

\* C1 as stated: the state changes only by a transition of the table, so that
\* Recording is never entered directly from WakeWordDetecting.
C1_TableOnly == [][state' /= state => TableTransition]_vars

\* The transitions each build makes.
BuildTransition ==
    \/ /\ variant = "main"
       /\ \/ /\ state = "WakeWordDetecting" /\ state' = "CmdDetecting"
             /\ res'.wakeup_state = "WAKENET_DETECTED"
          \/ /\ state = "CmdDetecting" /\ state' = "Recording"
             /\ res'.mn_state = "ESP_MN_STATE_DETECTED"
          \/ /\ state = "CmdDetecting" /\ state' = "WakeWordDetecting"
             /\ res'.mn_state = "ESP_MN_STATE_TIMEOUT"
          \/ /\ state = "Recording" /\ state' = "WakeWordDetecting"
             /\ SilenceThresholdHit
    \/ /\ variant = "ap"
       /\ \/ /\ state = "WakeWordDetecting" /\ state' = "Recording"
             /\ res'.wakeup_state = "WAKENET_DETECTED"
          \/ /\ state = "Recording" /\ state' = "WakeWordDetecting"
             /\ ExitPolled

\* C1, amended: the state starts in WakeWordDetecting and changes only by a
\* transition of its build. In the three-state build (main.rs) these are wake,
\* command matched, timeout and silence threshold, and Recording is entered only
\* from CmdDetecting; in the two-state build (audio_processing.rs) they are
\* wake (WakeWordDetecting to Recording) and exit phrase.
C1_BuildTransitionsOnly ==
    /\ state = "WakeWordDetecting"
    /\ [][state' /= state => BuildTransition]_vars

\* The two-state build has gone through a whole session: woken, recorded,
\* left on the exit phrase.
C1_Witness ==
    /\ variant = "ap"
    /\ state = "WakeWordDetecting"
    /\ created /= <<>>
    /\ calls /= <<>>
    /\ calls[Len(calls)].op = "enable_wakenet"


(***************************************************************************)
(* C2. File indices.                                                       *)
(***************************************************************************)
\* C2: the indices of the recordings created, in order of creation, are
\* strictly increasing, so that none is used twice.
C2_IndicesStrictlyIncreasing ==
    \A i, j \in DOMAIN created : i < j => created[i] < created[j]

\* A recording made in continuous conversation and one made after an exit on
\* the exit phrase, which skipped an index.
C2_Witness ==
    /\ variant = "ap"
    /\ created = <<0, 1, 3>>

C4_SpeechResetsCounter ==
    [][FetchIteration =>
         /\ (state = "Recording" /\ res'.vad_state = "VAD_SPEECH")
               => silence_frames' = 0
         /\ silence_frames' /= silence_frames
               => \/ silence_frames' = 0
                  \/ /\ silence_frames' = silence_frames + 1
                     /\ state = "Recording"
                     /\ res'.vad_state = "VAD_SILENCE"
         /\ (res'.vad_state = "VAD_SILENCE" /\ Called("finalize"))
               => silence_frames + 1 >= SilenceThreshold]_vars

\* A Speech frame has just been written to a session that already held
\* samples, and the counter is 0.
C4_Witness ==
    /\ state = "Recording"
    /\ res.vad_state = "VAD_SPEECH"
    /\ silence_frames = 0
    /\ wav_writer /= None
    /\ wav_writer[1].duration >= 2


(***************************************************************************)
(* C5, C6. RestartSession.                                                 *)
(***************************************************************************)
\* C5: handling RestartSession twice in a row leaves the context as handling
\* it once does.
C5_RestartIdempotent ==
    HandleRestartSession(HandleRestartSession(message_history))
        = HandleRestartSession(message_history)

\* C6: after RestartSession the context holds only system turns, and as many
\* of them whatever the context before (as many as a restart of the freshly
\* primed context leaves).
C6_RestartLengthFixed ==
    LET h == HandleRestartSession(message_history) IN
    /\ \A k \in DOMAIN h : h[k].role = "system"
    /\ Len(h) = Len(HandleRestartSession(InitialHistory))

(***************************************************************************)
(* C7. The exit phrase in the fetch loop.                                  *)
(***************************************************************************)
\* C7: an iteration in Recording that polls the exit phrase moves to
\* WakeWordDetecting with wake detection enabled by a call in that iteration
\* (before the next fetch), drops the writer and consumes that one response;
\* and the two-state build leaves Recording by no other step, so each exit
\* phrase received makes one transition.
C7_ExitPhraseEndsSession ==
    [][/\ ExitPolled =>
            /\ state' = "WakeWordDetecting"
            /\ wakenet' = TRUE
            /\ Called("enable_wakenet")
            /\ wav_writer' = None
            /\ response_ch' = Tail(response_ch)
       /\ (variant = "ap" /\ state = "Recording" /\ state' /= "Recording")
            => ExitPolled]_vars

\* The exit phrase has just been polled during a session that had sent a
\* recording for transcription.
C7_Witness ==
    /\ variant = "ap"
    /\ state = "WakeWordDetecting"
    /\ wakenet = TRUE
    /\ wav_writer = None
    /\ created = <<0, 1>>
    /\ calls /= <<>>
    /\ calls[Len(calls)] = Call("enable_wakenet", -1)
    /\ response_ch = <<>>

(***************************************************************************)
(* C9. The exit phrase in the worker.                                      *)
(***************************************************************************)
\* C9: when the worker handles a TranscribeFile whose transcription is the
\* exit phrase, it forwards the exit phrase on the response channel, plays the
\* goodbye utterance, makes no LLM call and leaves the context as it was.
C9_GoodbyeSkipsLlm ==
    [][(/\ WorkerTranscribeFile
        /\ wcalls'[2] = WCall("transcribe_audio", ExitPhrase))
         => /\ response_ch' = Append(response_ch, ExitPhrase)
            /\ \E k \in DOMAIN wcalls' :
                  wcalls'[k] = WCall("synthesize_and_play", GoodbyeUtterance)
            /\ \A k \in DOMAIN wcalls' : wcalls'[k].op /= "send_message"
            /\ message_history' = message_history]_vars

\* The worker has just handled an exit phrase, with a conversation already in
\* its context.
C9_Witness ==
    /\ wcalls /= <<>>
    /\ wcalls[2] = WCall("transcribe_audio", ExitPhrase)
    /\ response_ch /= <<>>
    /\ response_ch[Len(response_ch)] = ExitPhrase
    /\ \E k \in DOMAIN message_history : message_history[k].role = "user"

(***************************************************************************)
(* C10. The silence threshold.                                             *)
(***************************************************************************)
\* C10 as stated: when a Silence frame brings the counter to the threshold
\* in Recording, the session is finalized and flushed, TranscribeFile with the
\* session's path is sent, and the state becomes WakeWordDetecting with wake
\* detection enabled.
C10_ThresholdEndsSession ==
    [][(SilenceThresholdHit /\ wav_writer /= None) =>
          /\ Called("finalize")
          /\ Called("flush_filesystem")
          /\ Sent = Some(TranscribeFile(AudioPath(wav_writer[1].idx)))
          /\ state' = "WakeWordDetecting"
          /\ wakenet' = TRUE]_vars

\* C10, amended. When a Silence frame brings the counter to the threshold in
\* Recording: the build of main.rs finalizes the session and attempts the
\* flush, sends TranscribeFile with the session's path when the flush succeeded,
\* and moves to WakeWordDetecting with wake detection enabled; the build of
\* audio_processing.rs stays in Recording with wake detection off and the
\* counter at 0 and, if the session holds samples, finalizes it, flushes,
\* sends TranscribeFile with its path whatever the flush returned and opens the
\* next file, else keeps the session and sends nothing.
C10_ThresholdPerBuild ==
    [][(SilenceThresholdHit /\ wav_writer /= None) =>
          LET path == AudioPath(wav_writer[1].idx)
              flushed == \E k \in DOMAIN calls' :
                            calls'[k] = Call("flush_filesystem", 1)
          IN
          IF variant = "main"
          THEN /\ Called("finalize")
               /\ Called("flush_filesystem")
               /\ flushed => Sent = Some(TranscribeFile(path))
               /\ Sent /= None => Sent = Some(TranscribeFile(path))
               /\ wav_writer' = None
               /\ state' = "WakeWordDetecting"
               /\ wakenet' = TRUE
          ELSE /\ state' = "Recording"
               /\ wakenet' = wakenet
               /\ silence_frames' = 0
               /\ IF wav_writer[1].duration > 0
                  THEN /\ Called("finalize")
                       /\ Called("flush_filesystem")
                       /\ Sent = Some(TranscribeFile(path))
                       /\ wav_writer' = Some(NewWriter(file_idx))
                  ELSE /\ ~Called("finalize")
                       /\ Sent = None
                       /\ wav_writer' = wav_writer]_vars

\* The build of main.rs has just ended a session on the silence threshold and
\* sent its recording.
C10_Witness ==
    /\ variant = "main"
    /\ state = "WakeWordDetecting"
    /\ res.vad_state = "VAD_SILENCE"
    /\ silence_frames = SilenceThreshold
    /\ wakenet = TRUE
    /\ transcription_ch = <<TranscribeFile(AudioPath(0))>>


(***************************************************************************)
(* C8. Chunk lengths.                                                      *)
(***************************************************************************)
\* split_text_into_chunks has returned.
Chunked == chunks /= <<>>

\* The text has neither a sentence terminator nor a comma: it is one fragment.
OneFragment(t) == \A k \in DOMAIN t : t[k] \notin SentenceTerminators \cup Commas

\* The text holds a character that is neither punctuation nor whitespace.
HasWord(t) ==
    \E k \in DOMAIN t : t[k] \notin SentenceTerminators \cup Commas \cup Whitespace

\* The chunks, one after the other.
RECURSIVE Concat(_)
Concat(cs) == IF cs = <<>> THEN <<>> ELSE Head(cs) \o Concat(Tail(cs))

\* A fragment longer than N characters is cut every N characters.
HardSplit ==
    (OneFragment(text) /\ Len(Trim(text)) > max_chars) =>
        /\ \A k \in 1..(Len(chunks) - 1) : Len(chunks[k]) = max_chars
        /\ Len(chunks[Len(chunks)]) \in 1..max_chars
        /\ Concat(chunks) = Trim(text)

\* C8 as stated: every chunk has at most N characters, and a fragment longer
\* than N without sentence or comma boundary is cut into chunks of exactly N
\* characters, the last one possibly shorter.
C8_ChunksWithinLimit ==
    Chunked =>
        /\ \A k \in DOMAIN chunks : Len(chunks[k]) <= max_chars
        /\ HardSplit

\* C8, amended: every chunk has at most N characters, provided the text holds
\* a character other than sentence terminators, commas and whitespace; a text
\* made of those only may come back whole, as a single chunk of any length.  A
\* fragment longer than N without sentence or comma boundary is cut into
\* chunks of exactly N characters, the last one possibly shorter.
C8_ChunksWithinLimitIfWord ==
    Chunked =>
        /\ HasWord(text) => \A k \in DOMAIN chunks : Len(chunks[k]) <= max_chars
        /\ ~HasWord(text) =>
              \/ chunks = <<text>>
              \/ \A k \in DOMAIN chunks : Len(chunks[k]) <= max_chars
        /\ HardSplit

\* A fragment of four three-byte characters cut at three characters.
C8_Witness ==
    /\ max_chars = 3
    /\ text = <<"zh", "zh", "zh", "zh">>
    /\ chunks = << <<"zh", "zh", "zh">>, <<"zh">> >>


(***************************************************************************)
(* C11. The worker forwards the transcription result.                      *)
(***************************************************************************)
\* The positions in the worker's calls of the call `op`.
WCallsOf(op) == {k \in DOMAIN wcalls' : wcalls'[k].op = op}

\* The worker forwarded `r`, once, before any LLM or TTS call.
ForwardedFirst(r) ==
    /\ response_ch' = Append(response_ch, r)
    /\ Cardinality(WCallsOf("send_response")) = 1
    /\ \A k \in WCallsOf("send_response") : wcalls'[k].arg = r
    /\ \A k \in WCallsOf("send_response"),
          j \in WCallsOf("send_message") \cup WCallsOf("synthesize_and_play") : k < j

\* C11 as stated: for every TranscribeFile the worker handles it forwards the
\* result exactly once, the transcript on success and an "Error: " string on
\* failure, before any LLM or TTS call.
C11_AlwaysForwardsOnce ==
    [][WorkerTranscribeFile =>
          LET t == wcalls'[2].arg IN
          IF t = "Err"
          THEN \E r \in {TranscribeErr, LlmError} : ForwardedFirst(r)
          ELSE ForwardedFirst(t)]_vars

\* C11, amended: for every TranscribeFile the worker handles whose
\* transcription fails or gives a non-empty transcript, it forwards the result
\* exactly once, the transcript on success and an "Error: " string on failure,
\* before any LLM or TTS call and whatever becomes of those; an empty
\* transcript is dropped: no response, no LLM call, no TTS call.
C11_ForwardsNonEmptyOnce ==
    [][WorkerTranscribeFile =>
          LET t == wcalls'[2].arg IN
          CASE t = "Err" -> ForwardedFirst(TranscribeErr)
            [] t = ""    -> /\ response_ch' = response_ch
                            /\ message_history' = message_history
                            /\ Len(wcalls') = 2
            [] OTHER     -> ForwardedFirst(t)]_vars

\* The worker has forwarded a transcript and then met a failure of the LLM.
C11_Witness ==
    /\ wcalls = <<WCall("read", AudioPath(0)), WCall("transcribe_audio", "ni_hao"),
                  WCall("send_response", "ni_hao"), WCall("send_message", "ni_hao")>>
    /\ response_ch /= <<>>
    /\ response_ch[Len(response_ch)] = "ni_hao"
    /\ message_history[Len(message_history)] = ChatMessage("user", "ni_hao")


(***************************************************************************)
(* C12. Failures do not end the worker.                                    *)
(***************************************************************************)
\* The worker takes the message at the head of the control channel.
Takes(type) ==
    /\ worker = "running"
    /\ transcription_ch /= <<>>
    /\ Head(transcription_ch).type = type
    /\ transcription_ch' = Tail(transcription_ch)

C14_ShutdownCooperative ==
    [][/\ (worker = "running" /\ worker' = "terminated" /\ fetch_task = "running")
             => Takes("Shutdown")
       /\ Takes("Shutdown") =>
             /\ worker' = "terminated"
             /\ wcalls' = <<>>
             /\ UNCHANGED <<response_ch, message_history>>
       /\ worker = "terminated" =>
             UNCHANGED <<worker, transcription_ch, response_ch, message_history,
                         wcalls>>]_vars

\* The worker has stopped on Shutdown after answering a message queued before
\* it, and a message queued behind Shutdown stays unhandled.
C14_Witness ==
    /\ worker = "terminated"
    /\ fetch_task = "running"
    /\ response_ch /= <<>>
    /\ transcription_ch /= <<>>


(***************************************************************************)
(* C13. Order of the two channels.                                         *)
(***************************************************************************)
\* `after` is `before` with at most one element more, at its end.
Extends(after, before) ==
    \/ after = before
    \/ /\ Len(after) = Len(before) + 1
       /\ SubSeq(after, 1, Len(before)) = before

\* The worker's calls are those of the handler of `msg`.
HandlerOf(msg) ==
    /\ wcalls' /= <<>>
    /\ IF msg.type = "TranscribeFile"
       THEN wcalls'[1].op = "read" /\ wcalls'[1].arg = msg.path
       ELSE wcalls'[1].op = "clear_history"

\* C13: each step of the worker takes exactly the oldest message of the
\* control channel and handles that message, and adds at most one response at
\* the end of the response channel; each iteration of the fetch loop adds
\* messages at the end of the control channel only, and takes at most the
\* oldest response.  So messages are handled, and responses observed, in the
\* order sent, none lost, none twice.
C13_FifoChannels ==
    [][/\ (WorkerTranscribeFile \/ WorkerRestartSession) =>
             /\ transcription_ch /= <<>>
             /\ transcription_ch' = Tail(transcription_ch)
             /\ HandlerOf(Head(transcription_ch))
             /\ Extends(response_ch', response_ch)
       /\ FetchIteration =>
             /\ Extends(transcription_ch', transcription_ch)
             /\ \/ response_ch' = response_ch
                \/ response_ch /= <<>> /\ response_ch' = Tail(response_ch)
             /\ UNCHANGED <<wcalls, message_history>>]_vars

\* The first recording has been handled and answered while the second one was
\* already queued behind it.
C13_Witness ==
    /\ transcription_ch = <<TranscribeFile(AudioPath(1))>>
    /\ wcalls /= <<>>
    /\ wcalls[1] = WCall("read", AudioPath(0))
    /\ response_ch = <<"ni_hao">>
    /\ created = <<0, 1, 2>>


(***************************************************************************)
(* C15. One recording session, open exactly in the Recording state.        *)
(***************************************************************************)
\* C15: between iterations of the fetch loop a writer is open if and only if
\* the state is Recording; the writer variable holds at most one writer, and
\* the file it writes is the last one created.
C15_WriterIffRecording ==
    fetch_task = "running" =>
       /\ (wav_writer /= None) <=> (state = "Recording")
       /\ wav_writer /= None =>
             /\ Len(wav_writer) = 1
             /\ created /= <<>>
             /\ wav_writer[1].idx = created[Len(created)]

\* A session was opened, closed on the way back to wake word detection, and
\* the loop is between sessions again.
C15_Witness ==
    /\ state = "WakeWordDetecting"
    /\ wav_writer = None
    /\ created /= <<>>
    /\ \E k \in DOMAIN calls : calls[k].op = "finalize"
    /\ \E k \in DOMAIN calls : calls[k].op = "enable_wakenet"


(***************************************************************************)
(* C16. A failed flush of the filesystem.                                  *)
(***************************************************************************)
\* The iteration finalized a session that holds samples and its flush failed.
FlushFailedAfterFinalize ==
    /\ FetchIteration
    /\ wav_writer /= None
    /\ \E k \in DOMAIN calls' : calls'[k].op = "finalize" /\ calls'[k].samples > 0
    /\ \E k \in DOMAIN calls' : calls'[k] = Call("flush_filesystem", 0)

\* C16: in both builds, when the flush after finalizing a session with samples
\* fails, the iteration still sends TranscribeFile with the session's path.
C16_FlushFailureStillDispatches ==
    [][FlushFailedAfterFinalize =>
          Sent = Some(TranscribeFile(AudioPath(wav_writer[1].idx)))]_vars


(***************************************************************************)
(* C17. A recording file belongs to one task at a time.                    *)
(***************************************************************************)
\* The index in a path made by AudioPath
IndexOf(path) == path[2]

\* The paths of the TranscribeFile messages waiting in the control channel,
\* and the path the worker read last.
HandedOver ==
    {transcription_ch[k].path :
        k \in {j \in DOMAIN transcription_ch :
                  transcription_ch[j].type = "TranscribeFile"}}
    \cup (IF wcalls /= <<>> /\ wcalls[1].op = "read" THEN {wcalls[1].arg} ELSE {})

\* C17: a file handed to the worker, whether its message still waits or the
\* worker has read it, was created by the fetch loop, is older than the file of
\* the open writer, if any, and older than every file the loop can still
\* create; and the loop never creates the same path twice.  So the loop neither
\* writes nor creates a path the worker reads.
C17_FileHandedOverIsClosed ==
    /\ \A i, j \in DOMAIN created : i < j => created[i] < created[j]
    /\ \A i \in DOMAIN created : created[i] < file_idx
    /\ \A path \in HandedOver :
          /\ \E i \in DOMAIN created : created[i] = IndexOf(path)
          /\ IndexOf(path) < file_idx
          /\ wav_writer /= None => IndexOf(path) < wav_writer[1].idx

\* The worker has read the first recording while the fetch loop writes the
\* second one.
C17_Witness ==
    /\ wcalls /= <<>>
    /\ wcalls[1] = WCall("read", AudioPath(0))
    /\ wav_writer /= None
    /\ wav_writer[1].idx = 1
    /\ wav_writer[1].duration > 0


(***************************************************************************)
(* C18. A fetch that returns null or ESP_FAIL.                             *)
(***************************************************************************)
\* C18: an iteration whose fetch returned a null result or ESP_FAIL sleeps
\* 10 ms and changes nothing else: state, writer and its sample count, file
\* index, silence counter and wake detection are as before, nothing is sent on
\* the control channel, no response is taken, and the task keeps running.
C18_FetchErrorChangesNothing ==
    [][FetchFailed =>
          /\ res'.ret \in {"null", "ESP_FAIL"}
          /\ calls' = <<Call("sleep", 10)>>
          /\ UNCHANGED <<state, wav_writer, file_idx, silence_frames, wakenet,
                         created, transcription_ch, response_ch>>
          /\ fetch_task' = "running"]_vars

\* A fetch has just failed in the middle of a session that holds samples, with
\* silence counted and a response waiting to be polled.
C18_Witness ==
    /\ res.ret \in {"null", "ESP_FAIL"}
    /\ calls = <<Call("sleep", 10)>>
    /\ state = "Recording"
    /\ wav_writer /= None
    /\ wav_writer[1].duration > 0
    /\ silence_frames > 0
    /\ response_ch /= <<>>


(***************************************************************************)
(* C19, C20. A call of the fetch loop that returns Err.                    *)
(***************************************************************************)
\* The calls made through call_c_method! and the calls on the recording file.
EngineOps == {"fetch", "enable_wakenet", "disable_wakenet", "detect",
              "get_results", "clean"}
StorageOps == {"create", "write_cache", "write_data", "finalize"}

\* The iteration ended in a call of `ops` that returned Err.
FailedIn(ops) ==
    /\ ApFailure \/ MainFailure
    /\ \E k \in DOMAIN calls' : calls'[k] = FailedCall(calls'[k].op, calls'[k].arg)
                                /\ calls'[k].op \in ops

\* C19: an iteration in which an engine call returns Err leaves the task
\* running in the same state.
C19_EngineErrorIsTransient ==
    [][FailedIn(EngineOps) => fetch_task' = "running" /\ state' = state]_vars

\* C20: an iteration in which creating, writing or finalizing the recording
\* file returns Err abandons the session only: the writer is gone, the state is
\* WakeWordDetecting with wake detection enabled, and the task keeps running.
C20_StorageErrorEndsSessionOnly ==
    [][FailedIn(StorageOps) =>
          /\ fetch_task' = "running"
          /\ wav_writer' = None
          /\ state' = "WakeWordDetecting"
          /\ wakenet' = enable_wakenet]_vars


(***************************************************************************)
(* C21. A failed write to the audio output during playback.                *)
(***************************************************************************)
\* The worker handled a TranscribeFile during which a write to I2S failed.
I2sWriteFailed ==
    /\ WorkerTranscribeFileTts
    /\ \E k \in DOMAIN wcalls' : wcalls'[k] = WCall("log_error", "i2s_write")

\* C21: a failed write to the audio output during playback ends the worker.
C21_WriteFailureEndsWorker ==
    [][I2sWriteFailed => worker' = "terminated"]_vars


(***************************************************************************)
(* C22. Failures in the capture loop.                                      *)
(***************************************************************************)
\* C22: a failed microphone read, a feed that cannot be called and a failure
\* code returned by feed each end the capture task with the failure logged,
\* and no chunk is fed afterwards.
C22_FeedFailureIsFatal ==
    [][/\ FeedFailure => feed_task' = "failed" /\ feed_log' /= <<>>
       /\ (FeedIteration /\ fed'[Len(fed')] = "ESP_FAIL") =>
             feed_task' = "failed" /\ feed_log' /= <<>>
       /\ (feed_task = "failed" \/ \E k \in DOMAIN fed : fed[k] = "ESP_FAIL") =>
             fed' = fed]_vars


(***************************************************************************)
(* C23. A chunk that fails to synthesize.                                  *)
(***************************************************************************)
IsAttempt(c) == c.op = "synthesize_chunk"
IsNotBlank(chunk) == Trim(chunk) /= <<>>

\* The chunks synthesize_and_play attempted, in the order of the attempts.
Attempted(w) ==
    LET a == SelectSeq(w, IsAttempt) IN [k \in 1..Len(a) |-> a[k].arg]

\* C23: once synthesize_and_play has run on a text (its chunks are known), it
\* has attempted every chunk that is not blank, in order, whatever chunks
\* failed; a failed chunk is logged right after its attempt and not retried;
\* the call returns Ok.
C23_FailedChunkIsSkipped ==
    chunks /= <<>> =>
       /\ Attempted(wcalls) = SelectSeq(chunks, IsNotBlank)
       /\ wcalls /= <<>>
       /\ wcalls[Len(wcalls)] = WCall("return", <<"Ok">>)
       /\ \A k \in DOMAIN wcalls :
             wcalls[k].op = "log_chunk_error" =>
                /\ k > 1
                /\ wcalls[k - 1].op = "synthesize_chunk"
                /\ wcalls[k - 1].arg = wcalls[k].arg

\* The first of two chunks failed and was logged, the second was then played.
C23_Witness ==
    /\ Len(chunks) = 2
    /\ Len(wcalls) = 5
    /\ wcalls[1] = WCall("synthesize_chunk", chunks[1])
    /\ wcalls[2] = WCall("log_chunk_error", chunks[1])
    /\ wcalls[3] = WCall("synthesize_chunk", chunks[2])
    /\ wcalls[4] = WCall("sleep", chunks[2])
    /\ wcalls[5] = WCall("return", <<"Ok">>)


(***************************************************************************)
(* C24. A new LlmHelper.                                                   *)
(***************************************************************************)
\* C24: LlmHelper::new gives a helper with the model name it was given,
\* max_tokens 2048, temperature 1.0 and a history that is not empty and holds
\* a system message.
C24_NewHasSystemMessage ==
    [][LlmNew =>
          /\ llm'.model_name = wcalls'[1].arg[2]
          /\ llm'.max_tokens = 2048
          /\ llm'.temperature = 10
          /\ message_history' /= <<>>
          /\ \E k \in DOMAIN message_history' : message_history'[k].role = "system"]_vars

(***************************************************************************)
(* C25. clear_history keeps the system messages.                           *)
(***************************************************************************)
IsSystem(msg) == msg.role = "system"

\* C25: after clear_history the history is the sequence of the system
\* messages of the history before, in their order: as many messages as there
\* were system messages, and none of another role.
C25_ClearKeepsSystemOnly ==
    [][LlmClearHistory =>
          /\ message_history' = SelectSeq(message_history, IsSystem)
          /\ Len(message_history') =
                Cardinality({k \in DOMAIN message_history :
                                message_history[k].role = "system"})
          /\ \A k \in DOMAIN message_history' : message_history'[k].role = "system"]_vars

\* clear_history found two different system messages around a user message
\* and left the two, in their order.
C25_Witness ==
    /\ wcalls /= <<>>
    /\ wcalls[1].op = "clear_history"
    /\ wcalls[1].arg = <<ChatMessage("system", "b"), ChatMessage("user", "a"),
                         ChatMessage("system", "a")>>
    /\ message_history = <<ChatMessage("system", "b"), ChatMessage("system", "a")>>

(***************************************************************************)
(* C26. configure.                                                         *)
(***************************************************************************)
\* The value a field has after configure was given `opt` for it.
Configured(opt, before) == IF opt /= None THEN opt[1] ELSE before

\* C26: configure sets max_tokens, temperature and top_p each to the value
\* given as Some and leaves it as it was for None; history, model name,
\* endpoint and token are unchanged.
C26_ConfigureSetsGiven ==
    [][LlmConfigure =>
          LET given == wcalls'[1].arg IN
          /\ llm'.max_tokens = Configured(given[1], llm.max_tokens)
          /\ llm'.temperature = Configured(given[2], llm.temperature)
          /\ llm'.top_p = Configured(given[3], llm.top_p)
          /\ llm'.model_name = llm.model_name
          /\ llm'.api_endpoint = llm.api_endpoint
          /\ llm'.api_token = llm.api_token
          /\ message_history' = message_history]_vars

\* configure(Some(1024), None, Some(0.9)) on a new helper with a history: the
\* temperature is still 1.0.
C26_Witness ==
    /\ wcalls = <<WCall("configure", <<Some(1024), None, Some(9)>>)>>
    /\ llm.max_tokens = 1024
    /\ llm.temperature = 10
    /\ llm.top_p = 9
    /\ message_history /= <<>>


(***************************************************************************)
(* C27. Finalize, then flush, then dispatch.                               *)
(***************************************************************************)
\* C27: an iteration that sends TranscribeFile(path) has, before the send and
\* in this order, finalized the writer of that file and called
\* flush_filesystem; after the iteration no writer is open on that file.  No
\* other step of the fetch loop puts a TranscribeFile in the channel.
C27_DispatchAfterFinalizeAndFlush ==
    [][(FetchIteration /\ Sent /= None /\ Sent[1].type = "TranscribeFile") =>
          /\ \E i, j, k \in DOMAIN calls' :
                /\ i < j /\ j < k
                /\ calls'[i].op = "finalize"
                /\ calls'[i].arg = IndexOf(Sent[1].path)
                /\ calls'[j].op = "flush_filesystem"
                /\ calls'[k].op = "send_transcribe"
                /\ calls'[k].arg = IndexOf(Sent[1].path)
          /\ wav_writer /= None /\ wav_writer[1].idx = IndexOf(Sent[1].path)
          /\ wav_writer' = None \/ wav_writer'[1].idx /= IndexOf(Sent[1].path)]_vars

\* The build of audio_processing.rs has just dispatched a recording whose
\* flush was attempted and failed, and writes the next file.
C27_Witness ==
    /\ Len(calls) = 4
    /\ calls[1].op = "finalize"
    /\ calls[2] = Call("flush_filesystem", 0)
    /\ calls[3].op = "send_transcribe"
    /\ transcription_ch /= <<>>
    /\ transcription_ch[Len(transcription_ch)] = TranscribeFile(AudioPath(calls[1].arg))
    /\ wav_writer /= None
    /\ wav_writer[1].idx = calls[1].arg + 1


(***************************************************************************)
(* C28. What a Recording iteration appends to the session.                 *)
(***************************************************************************)
\* The samples the iteration appended: those of its write calls.
RECURSIVE SamplesWritten(_)
SamplesWritten(cs) ==
    IF cs = <<>> THEN 0
    ELSE (IF Head(cs).op \in {"write_cache", "write_data"} THEN Head(cs).arg ELSE 0)
         + SamplesWritten(Tail(cs))

\* C28: in Recording with an open writer, in both builds, an iteration that
\* read a Silence frame counts it and appends nothing; an iteration that read
\* another frame appends the cache samples, if any, and then the frame's
\* samples, and the session's sample count grows by exactly these.
C28_OnlySpeechIsAppended ==
    [][(FetchIteration /\ state = "Recording" /\ wav_writer /= None) =>
          /\ res'.vad_state = "VAD_SILENCE" =>
                /\ SamplesWritten(calls') = 0
                /\ \/ silence_frames' = silence_frames + 1
                   \/ ThresholdReached(silence_frames + 1)
          /\ res'.vad_state = "VAD_SPEECH" =>
                /\ calls' /= <<>>
                /\ calls'[Len(calls')].op = "write_data"
                /\ \A k \in DOMAIN calls' :
                      calls'[k].op = "write_cache" => k = 1 /\ Len(calls') = 2
                /\ wav_writer' /= None
                /\ wav_writer'[1].idx = wav_writer[1].idx
                /\ wav_writer'[1].duration =
                      wav_writer[1].duration + SamplesWritten(calls')]_vars


(***************************************************************************)
(* C29. The value of the silence threshold.                                *)
(***************************************************************************)
\* A Silence frame read in Recording is the n-th consecutive one, and the
\* iteration finalizes the session exactly when n is `threshold` (in the build
\* of audio_processing.rs, when the session also holds samples), never before.
FinalizedExactlyAt(threshold) ==
    (FetchIteration /\ state = "Recording" /\ res'.vad_state = "VAD_SILENCE") =>
       LET n == silence_frames + 1 IN
       /\ n <= threshold
       /\ Called("finalize") => n = threshold
       /\ (/\ n = threshold
           /\ wav_writer /= None
           /\ variant = "ap" => wav_writer[1].duration > 0) => Called("finalize")

C30_ExitDiscardsSession ==
    [][/\ (ExitPolled /\ wav_writer /= None) =>
             LET w == wav_writer[1].idx IN
             /\ calls'[1] = CallN("finalize", w, wav_writer[1].duration)
             /\ wav_writer' = None
             /\ SamplesWritten(calls') = 0
             /\ res'.vad_state = "-"
             /\ Sent = None
             /\ \A path \in HandedOver : IndexOf(path) /= w
             /\ file_idx' - 1 > w
       /\ (FetchIteration /\ Sent /= None /\ Sent[1].type = "TranscribeFile") =>
             /\ IndexOf(Sent[1].path) = file_idx - 1
             /\ wav_writer /= None
             /\ IndexOf(Sent[1].path) = wav_writer[1].idx
       /\ file_idx' >= file_idx]_vars

\* The exit phrase has just ended a session that held samples: it was
\* finalized, nothing was sent for it, and the loop detects the wake word again.
C30_Witness ==
    /\ variant = "ap"
    /\ state = "WakeWordDetecting"
    /\ wav_writer = None
    /\ Len(calls) = 2
    /\ calls[1].op = "finalize"
    /\ calls[1].samples > 0
    /\ calls[2].op = "enable_wakenet"
    /\ \A k \in DOMAIN transcription_ch :
          transcription_ch[k].type = "TranscribeFile" =>
             IndexOf(transcription_ch[k].path) /= calls[1].arg


(***************************************************************************)
(* C31. A response that is not the exit phrase.                            *)
(***************************************************************************)
\* C31: an iteration in Recording that polls a response other than the exit
\* phrase removes it and otherwise does exactly what the frame it fetched
\* makes an iteration without a response do (the silence arm or the speech
\* arm): the state stays Recording and wake detection stays as it was.  Every
\* iteration takes at most the oldest response, and none outside Recording.
C31_OtherResponseOnlyConsumed ==
    [][/\ (ApRecording /\ response_ch /= <<>> /\ Head(response_ch) /= ExitPhrase) =>
             /\ response_ch' = Tail(response_ch)
             /\ state' = "Recording"
             /\ wakenet' = wakenet
             /\ \E cache \in CacheSizes, data \in DataSizes, flush \in FlushResults :
                   ApSilence(flush) \/ ApSpeech(cache, data)
       /\ FetchIteration =>
             \/ response_ch' = response_ch
             \/ /\ state = "Recording"
                /\ response_ch /= <<>>
                /\ response_ch' = Tail(response_ch)]_vars

\* The worker answered with an error string, the fetch loop has polled it (the
\* channel is empty again) and is still recording in the same session.
C31_Witness ==
    /\ variant = "ap"
    /\ state = "Recording"
    /\ response_ch = <<>>
    /\ Len(wcalls) = 3
    /\ wcalls[3] = WCall("send_response", TranscribeErr)
    /\ wav_writer /= None
    /\ wav_writer[1].idx = 1
    /\ created = <<0, 1>>


(***************************************************************************)
(* C32. Consecutive file indices.                                          *)
(***************************************************************************)
\* C32: the first recording file created has index 0 and each later one the
\* index of the one created before it plus one: no index is skipped.
C32_IndicesConsecutive ==
    \A k \in DOMAIN created : created[k] = k - 1


(***************************************************************************)
(* C33. Leaving Recording.                                                 *)
(***************************************************************************)
\* The exit phrase is among the responses the fetch loop has yet to poll.
ExitQueued == \E k \in DOMAIN response_ch : IsExitCommand(response_ch[k])

\* Some continuation from here reaches WakeWordDetecting.  In the build of
\* main.rs the silence threshold leads there.  In the build of
\* audio_processing.rs the only assignment of WakeWordDetecting is in the arm
\* that polled the exit phrase, and only the worker sends responses.
CanReachWakeWordDetecting ==
    \/ state = "WakeWordDetecting"
    \/ variant = "main"
    \/ worker = "running"
    \/ ExitQueued

\* A step from a state without such a continuation leads to another one.
NoWayBack == [][~CanReachWakeWordDetecting => ~CanReachWakeWordDetecting']_vars

\* C33: Recording is never a trap: in every reachable state where the machine
\* is in Recording, some continuation reaches WakeWordDetecting, also when the
\* worker has terminated.
C33_RecordingNeverTrap ==
    state = "Recording" => CanReachWakeWordDetecting


(***************************************************************************)
(* C34. The session a response belongs to.                                 *)
(***************************************************************************)
\* The index of the file the latest wake word created.  The silence arm
\* creates the file after the one it finalized; a wake word follows an exit
\* arm, which increments file_idx without creating a file, so the file it
\* creates is not the successor of the one created before it.
SessionFirstIdx ==
    LET starts == {k \in DOMAIN created : k = 1 \/ created[k] /= created[k - 1] + 1}
        last == CHOOSE k \in starts : \A j \in starts : j <= k
    IN  created[last]

\* The two ways a file is created in audio_processing.rs, as SessionFirstIdx
\* reads them off the sequence of created files.
SessionsAreRuns ==
    [][/\ (ApWakeWordDetecting /\ state' = "Recording") =>
             /\ created' = Append(created, file_idx)
             /\ created /= <<>> => file_idx > created[Len(created)] + 1
       /\ (ApRecording /\ created' /= created) =>
             /\ created /= <<>>
             /\ created' = Append(created, created[Len(created)] + 1)]_vars

\* C34: an exit-phrase response ends a Recording session only if it is the
\* transcript of a recording made during that session, so only when a file of
\* the session has been finalized and handed over before: the open file is
\* not the one the session's wake word created.
C34_ExitOnlyByOwnSession ==
    [][ExitPolled => wav_writer /= None /\ wav_writer[1].idx > SessionFirstIdx]_vars


(***************************************************************************)
(* C35. Sessions in the conversation context.                              *)
(***************************************************************************)
\* A user or assistant turn of the context.
IsTurn(msg) == ~IsSystem(msg)

\* The index of the first file of the session the file `i` was recorded in.
SessionStartOf(i) ==
    LET starts == {k \in DOMAIN created :
                      /\ k = 1 \/ created[k] /= created[k - 1] + 1
                      /\ created[k] <= i}
        last == CHOOSE k \in starts : \A j \in starts : j <= k
    IN  created[last]

\* The control channel holds no RestartSession behind a TranscribeFile of the
\* session in progress.
RestartBeforeTranscribe(ch) ==
    \A j, k \in DOMAIN ch :
       (j < k /\ ch[j].type = "TranscribeFile"
              /\ IndexOf(ch[j].path) >= SessionFirstIdx) =>
          ch[k].type /= "RestartSession"

\* C35: the wake step sends RestartSession, and no TranscribeFile of the
\* session it opens is ever queued ahead of one; the worker's handling of
\* RestartSession leaves only system turns; so when the worker sends the
\* transcript of a file to the LLM, the context holds at most the turns of the
\* files recorded before it in the same session (two per file), and for the
\* first file of a session only system turns followed by that transcript and
\* the reply to it.
C35_SessionsIsolated ==
    [][/\ (ApWakeWordDetecting /\ state' = "Recording") => Sent = Some(RestartSession)
       /\ created' /= <<>> => RestartBeforeTranscribe(transcription_ch)'
       /\ WorkerRestartSession => SelectSeq(message_history', IsTurn) = <<>>
       /\ (WorkerTranscribeFile /\ Len(wcalls') >= 4 /\ wcalls'[4].op = "send_message") =>
             LET i == IndexOf(Received(transcription_ch).path)
                 before == SelectSeq(message_history, IsTurn)
                 after == SelectSeq(message_history', IsTurn)
             IN  /\ Len(before) <= 2 * (i - SessionStartOf(i))
                 /\ i = SessionStartOf(i) =>
                       /\ after /= <<>>
                       /\ after[1] = ChatMessage("user", wcalls'[4].arg)
                       /\ Len(after) <= 2
                       /\ \A k \in 2..Len(after) : after[k].role = "assistant"]_vars

\* The worker has sent the first transcript of a second session to the LLM
\* and the reply is in the context.
C35_Witness ==
    /\ variant = "ap"
    /\ created = <<0, 1, 3, 4>>
    /\ Len(wcalls) >= 4
    /\ wcalls[1] = WCall("read", AudioPath(3))
    /\ wcalls[4].op = "send_message"
    /\ Len(SelectSeq(message_history, IsTurn)) = 2


(***************************************************************************)
(* C36. The path of a TranscribeFile message.                              *)
(***************************************************************************)
\* The TranscribeFile messages of a queue carry distinct paths.
DistinctPaths(ch) ==
    \A j, k \in DOMAIN ch :
       (j < k /\ ch[j].type = "TranscribeFile" /\ ch[k].type = "TranscribeFile") =>
          ch[j].path /= ch[k].path

\* C36: an iteration that sends TranscribeFile sends the path of the file whose
\* writer it has just finalized; that file is the latest one created (so it
\* exists and no index was passed over to reach it), not the file the
\* iteration opens next, and not a path that waits in the channel or that the
\* worker has read: the paths in the channel are distinct.
C36_PathIsFinalizedSession ==
    [][(FetchIteration /\ Sent /= None /\ Sent[1].type = "TranscribeFile") =>
          LET i == IndexOf(Sent[1].path) IN
          /\ Sent[1].path = AudioPath(i)
          /\ wav_writer /= None
          /\ wav_writer[1].idx = i
          /\ \E k \in DOMAIN calls' : calls'[k].op = "finalize" /\ calls'[k].arg = i
          /\ created /= <<>>
          /\ created[Len(created)] = i
          /\ wav_writer' /= None =>
                /\ wav_writer'[1].idx > i
                /\ created' = Append(created, wav_writer'[1].idx)
          /\ \A path \in HandedOver : IndexOf(path) < i
          /\ DistinctPaths(transcription_ch')]_vars

\* Two recordings of one session wait in the channel while the third is
\* being written.
C36_Witness ==
    /\ variant = "ap"
    /\ \E j, k \in DOMAIN transcription_ch :
          /\ j < k
          /\ transcription_ch[j] = TranscribeFile(AudioPath(0))
          /\ transcription_ch[k] = TranscribeFile(AudioPath(1))
    /\ wav_writer /= None
    /\ wav_writer[1].idx = 2


(***************************************************************************)
(* C37. Wake detection follows the state.                                  *)
(***************************************************************************)
\* C37: before and after every step, wake detection is enabled exactly when
\* the state is WakeWordDetecting; an iteration that leaves WakeWordDetecting
\* calls disable_wakenet, one that enters it calls enable_wakenet, an
\* iteration that does neither calls neither, and no other step changes the
\* setting.
C37_WakenetFollowsState ==
    [][/\ wakenet <=> state = "WakeWordDetecting"
       /\ wakenet' <=> state' = "WakeWordDetecting"
       /\ wakenet' /= wakenet => FetchIteration
       /\ FetchIteration =>
             /\ Called("disable_wakenet") <=>
                   (state = "WakeWordDetecting" /\ state' /= "WakeWordDetecting")
             /\ Called("enable_wakenet") <=>
                   (state /= "WakeWordDetecting" /\ state' = "WakeWordDetecting")]_vars

\* The build of audio_processing.rs is back in WakeWordDetecting after the
\* exit phrase ended a session of two files, and wake detection is on again.
C37_Witness ==
    /\ variant = "ap"
    /\ state = "WakeWordDetecting"
    /\ wakenet
    /\ created = <<0, 1>>
    /\ file_idx = 3
    /\ calls /= <<>>
    /\ calls[Len(calls)] = Call("enable_wakenet", -1)


(***************************************************************************)
(* C38. The context after a failed exchange.                               *)
(***************************************************************************)
\* The worker's step called send_message(text, User) and got an "Error:"
\* string: it made the call and played nothing after it.
ExchangeFailed ==
    /\ WorkerTranscribeFile
    /\ Len(wcalls') = 4
    /\ wcalls'[4].op = "send_message"

\* After the system messages the turns are user, assistant, user, ...
Alternates(h) ==
    LET turns == SelectSeq(h, IsTurn) IN
    \A k \in DOMAIN turns :
       turns[k].role = IF k % 2 = 1 THEN "user" ELSE "assistant"

\* C38: a send_message(text, User) that returns an "Error:" string leaves the
\* history as it was before the call, and the turns after the system prefix
\* always alternate between user and assistant.
C38_FailedExchangeLeavesContext ==
    [][/\ ExchangeFailed => message_history' = message_history
       /\ Alternates(message_history')]_vars


(***************************************************************************)
(* C39. Playing the result of an exchange.                                 *)
(***************************************************************************)
\* The worker's step called send_message(text, User) and then
\* synthesize_and_play on the string it returned.
ResultPlayed ==
    /\ WorkerTranscribeFile
    /\ Len(wcalls') >= 5
    /\ wcalls'[4].op = "send_message"
    /\ wcalls'[5].op = "synthesize_and_play"

\* The exchange of the step appended an assistant turn to the context.
AssistantAppended ==
    /\ Len(message_history') = Len(message_history) + 2
    /\ message_history'[Len(message_history')].role = "assistant"

\* C39: the worker starts TTS playback of the result of an exchange only if
\* that exchange appended an assistant turn to the context, and what it plays
\* is that turn's content.
C39_PlayedOnlyAfterReply ==
    [][ResultPlayed =>
          /\ AssistantAppended
          /\ wcalls'[5].arg = message_history'[Len(message_history')].content]_vars


(***************************************************************************)
(* C40. The chunker keeps the text.                                        *)
(***************************************************************************)
\* A character that is neither a sentence terminator, a comma nor whitespace.
IsContent(c) == c \notin SentenceTerminators \cup Commas \cup Whitespace

\* C40: once split_text_into_chunks has returned, the characters of the text
\* other than sentence terminators, commas and whitespace are, in number and
\* in order, those of the chunks put one after the other: none is lost,
\* duplicated or moved.
C40_ChunksKeepContent ==
    Chunked => SelectSeq(Concat(chunks), IsContent) = SelectSeq(text, IsContent)

\* A sentence longer than the limit was split at its comma and then by
\* characters.
C40_Witness ==
    /\ text = <<"a", ",", "zh", "a">>
    /\ max_chars = 1
    /\ chunks = << <<"a">>, <<"zh">>, <<"a">> >>

====
